---- MODULE Spec2Model ----
(***************************************************************************)
(* A model of the VoxFS on-disk engine (voxfs/src/disk/disk.rs and the     *)
(* block codecs and bitmap it uses).  The in-memory Disk value and the     *)
(* backing store are separate parts of the state; every public operation   *)
(* of Disk is one action that runs the whole handler.                      *)
(*                                                                         *)
(* Geometry.  The source fixes block_size = 4096, 12 local tag members,    *)
(* 509 members per indirect tag block and 254 extents per indirect inode.  *)
(* The state machine is explored on a reduced geometry: the definitions    *)
(* BlockSize, MAXIMUM_LOCAL_MEMBERS, MaxTagMembers and MaxIndirectExtents  *)
(* below are model-scale stand-ins for those values, and TagCount,         *)
(* InodeCount and BlockCount stand for the counts mkfs derives from the    *)
(* store size.  INODE_EXTENT_COUNT keeps its source value.                 *)
(***************************************************************************)
EXTENDS Integers, Sequences, FiniteSets, TLC

\* ------------------------------------------------------------------------
\* Geometry of the explored file system
\* ------------------------------------------------------------------------
\* bytes per data block (4096 in the source)
BlockSize == 2
\* super_block.tag_count()
TagCount == 2
\* super_block.inode_count()
InodeCount == 4
\* super_block.block_count()
BlockCount == 6
\* TagBlock::MAXIMUM_LOCAL_MEMBERS (12 in the source)
MAXIMUM_LOCAL_MEMBERS == 2
\* IndirectTagBlock::max_members_for_blocksize(block_size) (509 in the source)
MaxTagMembers == 2
\* IndirectINode::max_extents_for_blocksize(block_size) (254 in the source)
MaxIndirectExtents == 2
\* the longest contents / appended byte vector an operation is given
MaxLen == 5

INODE_EXTENT_COUNT == 5
WordBits == 64
\* super_block.data_start_address (any positive block-aligned address)
DataStartAddress == 16

\* ------------------------------------------------------------------------
\* Option values
\* ------------------------------------------------------------------------
None == [some |-> FALSE]
Some(x) == [some |-> TRUE, v |-> x]

Min(a, b) == IF a < b THEN a ELSE b

\* the set of elements of a sequence
Range(q) == {q[k] : k \in 1..Len(q)}

\* slice q[from..to) with 0-based bounds, as a Rust range
Slice(q, from, to) == [k \in 1..(to - from) |-> q[from + k]]

RECURSIVE SumSeq(_)
SumSeq(q) ==
    IF Len(q) = 0 THEN 0
    ELSE IF Len(q) = 1 THEN q[1]
    ELSE SumSeq(SubSeq(q, 1, Len(q) \div 2)) + SumSeq(SubSeq(q, Len(q) \div 2 + 1, Len(q)))

\* ------------------------------------------------------------------------
\* BitMap (voxfs/src/bitmap.rs): words of 64 bits; a bitmap is the number of
\* its words and the set of indices of its set bits
\* ------------------------------------------------------------------------
BitMap_new(size) ==
    [words |-> IF size % WordBits # 0 THEN size \div WordBits + 1 ELSE size \div WordBits,
     bits  |-> {}]

BitMap_len(bm) == bm.words * WordBits

\* bit_at: None when the word does not exist
bit_at(bm, index) ==
    IF index \div WordBits >= bm.words THEN None ELSE Some(index \in bm.bits)

\* set_bit: value = true ORs the bit in, value = false XORs it
set_bit(bm, index, value) ==
    IF index \div WordBits >= bm.words
    THEN [ok |-> FALSE, bm |-> bm]
    ELSE [ok |-> TRUE,
          bm |-> [bm EXCEPT !.bits =
                     IF value THEN @ \cup {index}
                     ELSE IF index \in @ THEN @ \ {index} ELSE @ \cup {index}]]

\* count_zeros_up_to: whole words below index / 64, then the bits
\* bit_at(chunks + i) for i below index % 64
count_zeros_up_to(bm, index) ==
    IF index >= BitMap_len(bm) THEN None
    ELSE LET chunks == index \div WordBits
             chunk_index == index % WordBits
             whole == Cardinality({k \in 0..(chunks * WordBits - 1) : k \notin bm.bits})
             part == Cardinality({i \in 0..(chunk_index - 1) : (chunks + i) \notin bm.bits})
         IN Some(whole + part)

\* find_next_0_index: the first word that is not all ones, and its lowest
\* clear bit
find_next_0_index(bm) ==
    LET open == {i \in 0..(bm.words - 1) :
                    \E j \in 0..(WordBits - 1) : (i * WordBits + j) \notin bm.bits}
    IN IF open = {} THEN None
       ELSE LET i == CHOOSE w \in open : \A v \in open : w <= v
            IN Some(i * WordBits
                    + (CHOOSE j \in 0..(WordBits - 1) :
                          /\ (i * WordBits + j) \notin bm.bits
                          /\ \A k \in 0..(j - 1) : (i * WordBits + k) \in bm.bits))

\* find_next_0_index_up_to: the lowest clear bit when it is below index,
\* None otherwise (the method is called by the Disk; its body is the one the
\* specification describes)
find_next_0_index_up_to(bm, index) ==
    LET first == find_next_0_index(bm)
    IN IF first.some /\ first.v < index THEN first ELSE None

\* as_bytes: eight bytes per word, bit j of byte k is bit 8k + j
BitMap_as_bytes(bm) ==
    [k \in 1..(bm.words * 8) |->
        SumSeq([j \in 1..8 |-> IF (8 * (k - 1) + (j - 1)) \in bm.bits
                               THEN 2 ^ (j - 1) ELSE 0])]

\* from_bytes: a bitmap of bytes.len() * 8 bits filled from whole 8-byte groups
BitMap_from_bytes(bytes) ==
    LET m == BitMap_new(Len(bytes) * 8)
        groups == Len(bytes) \div 8
    IN [m EXCEPT !.bits =
           {b \in 0..(groups * 64 - 1) :
               (bytes[b \div 8 + 1] \div (2 ^ (b % 8))) % 2 = 1}]

\* ------------------------------------------------------------------------
\* Checksum (voxfs/src/checksum_trait.rs): the 8-bit wrapping sum of the
\* bytes of a block.  Integers are written little-endian, so the bytes of a
\* field sum to the sum of its base-256 digits.
\* ------------------------------------------------------------------------
RECURSIVE ByteSum(_)
ByteSum(n) == IF n = 0 THEN 0 ELSE (n % 256) + ByteSum(n \div 256)

\* calculate_checksum: 0u8.wrapping_sub(sum)
calculate_checksum(sum) == (256 - (sum % 256)) % 256

\* ------------------------------------------------------------------------
\* TagBlock (voxfs/src/disk/disk_blocks/tag_block.rs)
\* ------------------------------------------------------------------------
MAX_NAME_LENGTH == 132

TagFlags_as_u8(f) == (IF f.read THEN 128 ELSE 0) + (IF f.write THEN 64 ELSE 0)

TagFlags_from_u8(n) == [read |-> (n \div 128) % 2 = 1, write |-> (n \div 64) % 2 = 1]

\* to_bytes: the fields in order; every char of the name is cast to u8
TagBlock_to_bytes(t) ==
    [index |-> t.index,
     name |-> [k \in 1..Len(t.name) |-> t.name[k] % 256],
     checksum |-> t.checksum,
     flags |-> TagFlags_as_u8(t.flags),
     creation_time |-> t.creation_time,
     indirect |-> t.indirect,
     number_of_pointers |-> t.number_of_pointers,
     members |-> t.members]

TagBytes_sum(b) ==
    ByteSum(b.index) + SumSeq(b.name) + b.checksum + b.flags
    + ByteSum(b.creation_time) + ByteSum(b.indirect) + ByteSum(b.number_of_pointers)
    + SumSeq([k \in 1..Len(b.members) |-> ByteSum(b.members[k])])

TagBlock_perform_checksum(t) == TagBytes_sum(TagBlock_to_bytes(t)) % 256 = 0

TagBlock_set_checksum(t) ==
    [t EXCEPT !.checksum =
        calculate_checksum(TagBytes_sum(TagBlock_to_bytes([t EXCEPT !.checksum = 0])))]

\* TagBlock::new / new_custom_creation_time
TagBlock_new(index, name_str, flags, creation_time, indirect, number_of_pointers, members) ==
    TagBlock_set_checksum(
        [index |-> index,
         name |-> SubSeq(name_str, 1, Min(Len(name_str), MAX_NAME_LENGTH)),
         checksum |-> 0,
         flags |-> flags,
         creation_time |-> creation_time,
         indirect |-> indirect,
         number_of_pointers |-> number_of_pointers,
         members |-> members])

TagBlock_from_bytes(b) ==
    LET res == [index |-> b.index,
                name |-> b.name,
                checksum |-> b.checksum,
                flags |-> TagFlags_from_u8(b.flags),
                creation_time |-> b.creation_time,
                indirect |-> b.indirect,
                number_of_pointers |-> b.number_of_pointers,
                members |-> b.members]
    IN IF TagBlock_perform_checksum(res) THEN Some(res) ELSE None

TagBlock_indirect_pointer(t) == IF t.indirect = 0 THEN None ELSE Some(t.indirect)

TagBlock_set_indirect(t, indirect) == TagBlock_set_checksum([t EXCEPT !.indirect = indirect])

TagBlock_set_indirect_optional(t, o) ==
    IF o.some THEN TagBlock_set_indirect(t, o.v) ELSE TagBlock_set_indirect(t, 0)

\* set_index stores the index and leaves the checksum as it was
TagBlock_set_index(t, index) == [t EXCEPT !.index = index]

TagBlock_contains_member(t, member) ==
    \E k \in 1..t.number_of_pointers : t.members[k] = member

TagBlock_append_member(t, member) ==
    IF t.number_of_pointers = MAXIMUM_LOCAL_MEMBERS THEN t
    ELSE TagBlock_set_checksum(
             [t EXCEPT !.members[t.number_of_pointers + 1] = member,
                       !.number_of_pointers = @ + 1])

\* remove_member_at(index), index counted from 0: shifts the later members
\* down, clears the last used slot; does nothing when index is not a used slot
TagBlock_remove_member_at(t, index) ==
    IF t.number_of_pointers = 0 THEN t
    ELSE IF index >= t.number_of_pointers THEN t
    ELSE TagBlock_set_checksum(
             [t EXCEPT !.members =
                          [k \in 1..MAXIMUM_LOCAL_MEMBERS |->
                              IF k - 1 < index THEN t.members[k]
                              ELSE IF k - 1 < t.number_of_pointers - 1 THEN t.members[k + 1]
                              ELSE IF k - 1 = t.number_of_pointers - 1 THEN 0
                              ELSE t.members[k]],
                       !.number_of_pointers = @ - 1])

\* the bytes of a tag slot that was never written
ZeroTagBytes ==
    [index |-> 0, name |-> <<>>, checksum |-> 0, flags |-> 0, creation_time |-> 0,
     indirect |-> 0, number_of_pointers |-> 0,
     members |-> [k \in 1..MAXIMUM_LOCAL_MEMBERS |-> 0]]

\* ------------------------------------------------------------------------
\* IndirectTagBlock
\* ------------------------------------------------------------------------
IndirectTagBlock_to_bytes(b) ==
    [k |-> "itag", root |-> b.root, checksum |-> b.checksum, reserved |-> b.reserved,
     next |-> b.next, number_of_members |-> b.number_of_members, members |-> b.members]

IndirectTagBytes_sum(b) ==
    ByteSum(b.root) + b.checksum + b.reserved + ByteSum(b.next)
    + ByteSum(b.number_of_members)
    + SumSeq([k \in 1..Len(b.members) |-> ByteSum(b.members[k])])

IndirectTagBlock_set_checksum(b) ==
    [b EXCEPT !.checksum =
        calculate_checksum(IndirectTagBytes_sum([b EXCEPT !.checksum = 0]))]

IndirectTagBlock_new(root, members, next) ==
    IndirectTagBlock_set_checksum(
        [root |-> root, checksum |-> 0, reserved |-> 0, next |-> next,
         number_of_members |-> Len(members), members |-> members,
         maximum_members |-> MaxTagMembers])

IndirectTagBlock_next(b) == IF b.next = 0 THEN None ELSE Some(b.next)

IndirectTagBlock_set_next(b, next) == IndirectTagBlock_set_checksum([b EXCEPT !.next = next])

IndirectTagBlock_set_next_optional(b, o) ==
    IF o.some THEN IndirectTagBlock_set_next(b, o.v) ELSE IndirectTagBlock_set_next(b, 0)

IndirectTagBlock_contains_member(b, member) == member \in Range(b.members)

IndirectTagBlock_set_block_size(b) == [b EXCEPT !.maximum_members = MaxTagMembers]

\* append_member: [ok, b]
IndirectTagBlock_append_member(b, member) ==
    IF b.number_of_members >= b.maximum_members THEN [ok |-> FALSE, b |-> b]
    ELSE [ok |-> TRUE,
          b |-> IndirectTagBlock_set_checksum(
                    [b EXCEPT !.members = Append(@, member), !.number_of_members = @ + 1])]

\* remove_member_at(index), index counted from 0
IndirectTagBlock_remove_member_at(b, index) ==
    IF b.number_of_members = 0 \/ index >= b.number_of_members THEN b
    ELSE IndirectTagBlock_set_checksum(
             [b EXCEPT !.members = [k \in 1..(Len(@) - 1) |->
                                       IF k - 1 < index THEN @[k] ELSE @[k + 1]],
                       !.number_of_members = @ - 1])

\* ------------------------------------------------------------------------
\* INode, Extent and IndirectINode (voxfs/src/disk/disk_blocks/inode.rs)
\* ------------------------------------------------------------------------
MAX_INODE_NAME_LENGTH == 125

Extent(start, end) == [start |-> start, end |-> end]

Extent_zeroed == Extent(0, 0)

INodeFlags_to_u8(f) ==
    (IF f.valid THEN 128 ELSE 0) + (IF f.read THEN 64 ELSE 0)
    + (IF f.write THEN 32 ELSE 0) + (IF f.execute THEN 16 ELSE 0)

INodeFlags_from_u8(n) ==
    [valid |-> (n \div 128) % 2 = 1, read |-> (n \div 64) % 2 = 1,
     write |-> (n \div 32) % 2 = 1, execute |-> (n \div 16) % 2 = 1]

INode_to_bytes(n) ==
    [index |-> n.index,
     name |-> [k \in 1..Len(n.name) |-> n.name[k] % 256],
     size |-> n.size,
     flags |-> INodeFlags_to_u8(n.flags),
     access_time |-> n.access_time,
     modified_time |-> n.modified_time,
     creation_time |-> n.creation_time,
     checksum |-> n.checksum,
     indirect_block |-> n.indirect_block,
     num_extents |-> n.num_extents,
     blocks |-> n.blocks]

INodeBytes_sum(b) ==
    ByteSum(b.index) + SumSeq(b.name) + ByteSum(b.size) + b.flags
    + ByteSum(b.access_time) + ByteSum(b.modified_time) + ByteSum(b.creation_time)
    + b.checksum + ByteSum(b.indirect_block) + b.num_extents
    + SumSeq([k \in 1..Len(b.blocks) |-> ByteSum(b.blocks[k].start) + ByteSum(b.blocks[k].end)])

INode_perform_checksum(n) == INodeBytes_sum(INode_to_bytes(n)) % 256 = 0

INode_set_checksum(n) ==
    [n EXCEPT !.checksum =
        calculate_checksum(INodeBytes_sum(INode_to_bytes([n EXCEPT !.checksum = 0])))]

\* INode::new; num_extents is stored as a u8
INode_new(index, str_name, size, flags, time, indirect_pointer, num_extents, blocks) ==
    INode_set_checksum(
        [index |-> index,
         name |-> SubSeq(str_name, 1, Min(Len(str_name), MAX_INODE_NAME_LENGTH)),
         size |-> size,
         flags |-> flags,
         access_time |-> time,
         modified_time |-> time,
         creation_time |-> time,
         checksum |-> 0,
         indirect_block |-> indirect_pointer,
         num_extents |-> num_extents % 256,
         blocks |-> blocks])

INode_from_bytes(b) ==
    LET s == [index |-> b.index,
              name |-> b.name,
              size |-> b.size,
              flags |-> INodeFlags_from_u8(b.flags),
              access_time |-> b.access_time,
              modified_time |-> b.modified_time,
              creation_time |-> b.creation_time,
              checksum |-> b.checksum,
              indirect_block |-> b.indirect_block,
              num_extents |-> b.num_extents,
              blocks |-> b.blocks]
    IN IF INode_perform_checksum(s) THEN Some(s) ELSE None

INode_indirect_pointer(n) == IF n.indirect_block = 0 THEN None ELSE Some(n.indirect_block)

INode_set_indirect_pointer(n, o) ==
    INode_set_checksum([n EXCEPT !.indirect_block = IF o.some THEN o.v ELSE 0])

INode_increase_file_size(n, amount) == INode_set_checksum([n EXCEPT !.size = @ + amount])

\* append_extent: [ok, n]
INode_append_extent(n, extent) ==
    IF n.num_extents >= INODE_EXTENT_COUNT THEN [ok |-> FALSE, n |-> n]
    ELSE [ok |-> TRUE,
          n |-> INode_set_checksum(
                    [n EXCEPT !.blocks[n.num_extents + 1] = extent, !.num_extents = @ + 1])]

ZeroINodeBytes ==
    [index |-> 0, name |-> <<>>, size |-> 0, flags |-> 0, access_time |-> 0,
     modified_time |-> 0, creation_time |-> 0, checksum |-> 0, indirect_block |-> 0,
     num_extents |-> 0, blocks |-> [k \in 1..INODE_EXTENT_COUNT |-> Extent_zeroed]]

IndirectINode_to_bytes(b) ==
    [k |-> "iinode", checksum |-> b.checksum, reserved |-> b.reserved, next |-> b.next,
     num_extents |-> b.num_extents, pointers |-> b.pointers]

IndirectINodeBytes_sum(b) ==
    b.checksum + b.reserved + ByteSum(b.next) + ByteSum(b.num_extents)
    + SumSeq([k \in 1..Len(b.pointers) |->
                 ByteSum(b.pointers[k].start) + ByteSum(b.pointers[k].end)])

IndirectINode_set_checksum(b) ==
    [b EXCEPT !.checksum =
        calculate_checksum(IndirectINodeBytes_sum([b EXCEPT !.checksum = 0]))]

IndirectINode_new(pointers, next) ==
    IndirectINode_set_checksum(
        [checksum |-> 0, reserved |-> 0, next |-> next, num_extents |-> Len(pointers),
         pointers |-> pointers, maximum_extents |-> MaxIndirectExtents])

IndirectINode_next(b) == IF b.next = 0 THEN None ELSE Some(b.next)

IndirectINode_set_next(b, next) == IndirectINode_set_checksum([b EXCEPT !.next = next])

IndirectINode_set_maximum_extents_blocksize(b) ==
    [b EXCEPT !.maximum_extents = MaxIndirectExtents]

\* append_extent: [ok, b]
IndirectINode_append_extent(b, extent) ==
    IF b.num_extents >= b.maximum_extents THEN [ok |-> FALSE, b |-> b]
    ELSE [ok |-> TRUE,
          b |-> IndirectINode_set_checksum(
                    [b EXCEPT !.pointers = Append(@, extent), !.num_extents = @ + 1])]

IndirectINode_last_extent(b) ==
    IF b.pointers = <<>> THEN None ELSE Some(b.pointers[Len(b.pointers)])


\* ------------------------------------------------------------------------
\* The backing store (DiskHandler).  The three bitmap regions hold bytes, the
\* tag and inode regions hold one serialised block per slot, and the data
\* region holds one cell per data block: raw file bytes, or the bytes of an
\* indirect block kept as the fields they encode.
\* ------------------------------------------------------------------------
ZeroCell == [k |-> "raw", b |-> [j \in 1..BlockSize |-> 0]]

RawCell(bytes) == [k |-> "raw", b |-> bytes]

CellBytes(cell) == IF cell.k = "raw" THEN cell.b ELSE [j \in 1..BlockSize |-> 255]

\* Disk::address_to_data_index without its assertion
AddressIndex(address) == (address - DataStartAddress) \div BlockSize

\* Disk::data_index_to_address
data_index_to_address(index) == DataStartAddress + index * BlockSize

\* Disk::address_to_data_index: None stands for the failed assertion
address_to_data_index(address) ==
    IF address > DataStartAddress THEN Some(AddressIndex(address)) ELSE None

\* handler.write_bytes of file bytes at an address inside the data region:
\* [ok, h]; a write that runs past the last data block fails and writes nothing
write_raw(h, address, bytes) ==
    IF bytes = <<>> THEN [ok |-> TRUE, h |-> h]
    ELSE LET p0 == address - DataStartAddress
             p1 == p0 + Len(bytes) - 1
         IN IF p0 < 0 \/ p1 \div BlockSize >= BlockCount THEN [ok |-> FALSE, h |-> h]
            ELSE [ok |-> TRUE,
                  h |-> [h EXCEPT !.data =
                           [i \in 0..(BlockCount - 1) |->
                              IF i < p0 \div BlockSize \/ i > p1 \div BlockSize THEN @[i]
                              ELSE RawCell([j \in 1..BlockSize |->
                                      LET pos == i * BlockSize + j - 1
                                      IN IF pos >= p0 /\ pos <= p1 THEN bytes[pos - p0 + 1]
                                         ELSE CellBytes(@[i])[j]])]]]

\* handler.write_bytes of a serialised indirect block at a block address
write_cell(h, address, cell) ==
    IF AddressIndex(address) \in 0..(BlockCount - 1)
    THEN [ok |-> TRUE, h |-> [h EXCEPT !.data[AddressIndex(address)] = cell]]
    ELSE [ok |-> FALSE, h |-> h]

\* handler.read_bytes(address, block_size) followed by IndirectTagBlock::from_bytes
read_indirect_tag(h, address) ==
    IF AddressIndex(address) \notin 0..(BlockCount - 1) THEN None
    ELSE LET c == h.data[AddressIndex(address)]
         IN IF c.k = "itag"
            THEN (IF IndirectTagBytes_sum(c) % 256 = 0
                  THEN Some([root |-> c.root, checksum |-> c.checksum, reserved |-> c.reserved,
                             next |-> c.next, number_of_members |-> c.number_of_members,
                             members |-> c.members, maximum_members |-> 0])
                  ELSE None)
            ELSE IF c = ZeroCell
            THEN Some([root |-> 0, checksum |-> 0, reserved |-> 0, next |-> 0,
                       number_of_members |-> 0, members |-> <<>>, maximum_members |-> 0])
            ELSE None

\* handler.read_bytes(address, block_size) followed by IndirectINode::from_bytes
read_indirect_inode(h, address) ==
    IF AddressIndex(address) \notin 0..(BlockCount - 1) THEN None
    ELSE LET c == h.data[AddressIndex(address)]
         IN IF c.k = "iinode"
            THEN (IF IndirectINodeBytes_sum(c) % 256 = 0
                  THEN Some([checksum |-> c.checksum, reserved |-> c.reserved, next |-> c.next,
                             num_extents |-> c.num_extents, pointers |-> c.pointers,
                             maximum_extents |-> 0])
                  ELSE None)
            ELSE IF c = ZeroCell
            THEN Some([checksum |-> 0, reserved |-> 0, next |-> 0, num_extents |-> 0,
                       pointers |-> <<>>, maximum_extents |-> 0])
            ELSE None

\* ------------------------------------------------------------------------
\* Disk (voxfs/src/disk/disk.rs).  A Disk value s has the fields tag_bitmap,
\* inode_bitmap, block_bitmap, tags, inodes and h (the store behind its
\* handler).  An operation returns [s, err] with err = "Ok" on success, the
\* name of the VoxFSError it returns, "Panic" when it panics, or "Hang" when
\* it follows a chain that never ends.
\* ------------------------------------------------------------------------
Ret(s, err) == [s |-> s, err |-> err]

\* more steps than any chain without a repeated block can take
Fuel == BlockCount + 1

\* Disk::write_bitmaps
write_bitmaps(s) ==
    [s EXCEPT !.h.tag_map = BitMap_as_bytes(s.tag_bitmap),
              !.h.inode_map = BitMap_as_bytes(s.inode_bitmap),
              !.h.block_map = BitMap_as_bytes(s.block_bitmap)]

\* write_to_address(tag_index_to_address(t.index), t.to_bytes())
write_tag(s, t) ==
    IF t.index \in 0..(TagCount - 1)
    THEN [s EXCEPT !.h.tag_region[t.index] = TagBlock_to_bytes(t)]
    ELSE s

\* write_to_address(inode_index_to_address(n.index), n.to_bytes())
write_inode(s, n) ==
    IF n.index \in 0..(InodeCount - 1)
    THEN [s EXCEPT !.h.inode_region[n.index] = INode_to_bytes(n)]
    ELSE s

\* Disk::locate_inode: the position in the cache, None for CouldNotFindINode
locate_inode(s, inode_index) ==
    LET hits == {k \in 1..Len(s.inodes) : s.inodes[k].index = inode_index}
    IN IF hits = {} THEN None ELSE Some(CHOOSE k \in hits : \A j \in hits : k <= j)

\* the position of the first cached tag with this index
locate_tag(s, tag_index) ==
    LET hits == {k \in 1..Len(s.tags) : s.tags[k].index = tag_index}
    IN IF hits = {} THEN None ELSE Some(CHOOSE k \in hits : \A j \in hits : k <= j)

\* Disk::available_data_blocks
available_data_blocks(s) ==
    LET c == count_zeros_up_to(s.block_bitmap, BlockCount)
    IN IF c.some THEN c.v ELSE 0

\* Disk::find_block: [err, val]; the unwrap of count_zeros_up_to can panic
find_block(s) ==
    LET c == count_zeros_up_to(s.block_bitmap, BlockCount)
    IN IF ~c.some THEN [err |-> "Panic", val |-> None]
       ELSE IF c.v < 1 THEN [err |-> "Ok", val |-> None]
       ELSE [err |-> "Ok", val |-> find_next_0_index_up_to(s.block_bitmap, BlockCount)]

\* ------------------------------------------------------------------------
\* Disk::find_blocks
\* ------------------------------------------------------------------------
\* the inner while loop: returns <<largest_start_index, largest_end_index>>
RECURSIVE find_blocks_scan(_, _, _, _, _, _, _)
find_blocks_scan(bm, need, start_index, end_index, largest_start, largest_end, i) ==
    IF i >= BlockCount THEN <<largest_start, largest_end>>
    ELSE IF (end_index - start_index + 1) >= need THEN <<start_index, end_index>>
    ELSE IF i \notin bm.bits
    THEN find_blocks_scan(bm, need, start_index, end_index + 1, largest_start, largest_end, i + 1)
    ELSE IF (end_index - start_index) > (largest_end - largest_start)
    THEN find_blocks_scan(bm, need, i + 1, i + 1, start_index, end_index, i + 1)
    ELSE find_blocks_scan(bm, need, i + 1, i + 1, largest_start, largest_end, i + 1)

\* the for loop after a run that started at first_index: the last clear bit
\* in largest_end_index..block_count
find_blocks_new_first(bm, largest_end) ==
    LET free == {i \in largest_end..(BlockCount - 1) : i \notin bm.bits}
    IN IF free = {} THEN None ELSE Some(CHOOSE i \in free : \A j \in free : j <= i)

\* the outer while loop
RECURSIVE find_blocks_loop(_, _, _, _, _)
find_blocks_loop(bm, required, res, blocks_found, first_index) ==
    IF blocks_found >= required THEN Some(res)
    ELSE LET l == find_blocks_scan(bm, required - blocks_found, first_index, first_index,
                                   first_index, first_index, first_index + 1)
             found == blocks_found + (l[2] - l[1] + 1)
             res2 == Append(res, l)
         IN IF l[1] = first_index
            THEN (LET nf == find_blocks_new_first(bm, l[2])
                  IN IF nf.some THEN find_blocks_loop(bm, required, res2, found, nf.v)
                     ELSE None)
            ELSE find_blocks_loop(bm, required, res2, found, first_index)

\* find_blocks(min_size): [err, val] with val the Option of a sequence of
\* <<start, end>>; err = "Panic" when find_next_0_index_up_to(..).unwrap()
\* finds no clear bit
find_blocks(s, min_size) ==
    LET required == IF min_size % BlockSize # 0 THEN 1 + min_size \div BlockSize
                    ELSE min_size \div BlockSize
        zeros == count_zeros_up_to(s.block_bitmap, BlockCount)
        first == find_next_0_index_up_to(s.block_bitmap, BlockCount)
    IN IF ~zeros.some THEN [err |-> "Panic", val |-> None]
       ELSE IF zeros.v < required THEN [err |-> "Ok", val |-> None]
       ELSE IF ~first.some THEN [err |-> "Panic", val |-> None]
       ELSE [err |-> "Ok",
             val |-> find_blocks_loop(s.block_bitmap, required, <<>>, 0, first.v)]


\* ------------------------------------------------------------------------
\* Names
\* ------------------------------------------------------------------------
\* FORBIDDEN_CHARACTERS, as character codes
FORBIDDEN_CHARACTERS ==
    {35, 60, 36, 43, 37, 62, 33, 96, 38, 42, 39, 124, 123, 125, 63, 34, 61, 47, 58, 92, 64}

\* a validate_name that accepts every name
validate_name_any(name) == TRUE

\* Disk::validate_name
validate_name(name) == \A k \in 1..Len(name) : name[k] \notin FORBIDDEN_CHARACTERS

\* "root"
RootName == <<114, 111, 111, 116>>

\* manager.current_time(): the clock is outside the engine; it reads 0 here
CurrentTime == 0

\* ------------------------------------------------------------------------
\* Tag engine
\* ------------------------------------------------------------------------
\* store_tag_first_free that leaves the slot it used marked free
store_tag_first_free_unmarked(s, tag) ==
    LET index == find_next_0_index_up_to(s.tag_bitmap, TagCount)
    IN IF ~index.some THEN [s |-> s, err |-> "NoFreeInode", tag |-> tag]
       ELSE [s |-> write_bitmaps(write_tag(s, TagBlock_set_index(tag, index.v))),
             err |-> "Ok", tag |-> TagBlock_set_index(tag, index.v)]

\* Disk::store_tag_first_free: [s, err, tag]
store_tag_first_free(s, tag) ==
    LET index == find_next_0_index_up_to(s.tag_bitmap, TagCount)
    IN IF ~index.some THEN [s |-> s, err |-> "NoFreeInode", tag |-> tag]
       ELSE LET t == TagBlock_set_index(tag, index.v)
                s1 == write_tag(s, t)
                sb == set_bit(s1.tag_bitmap, index.v, TRUE)
            IN IF ~sb.ok THEN [s |-> s1, err |-> "Panic", tag |-> t]
               ELSE [s |-> write_bitmaps([s1 EXCEPT !.tag_bitmap = sb.bm]),
                     err |-> "Ok", tag |-> t]

\* Disk::create_new_tag
create_new_tag(s, name, flags) ==
    IF ~validate_name(name) THEN Ret(s, "InvalidTagName")
    ELSE LET tag == TagBlock_new(0, name, flags, CurrentTime, 0, 0,
                                 [k \in 1..MAXIMUM_LOCAL_MEMBERS |-> 0])
             st == store_tag_first_free(s, tag)
         IN IF st.err # "Ok" THEN Ret(st.s, st.err)
            ELSE Ret([st.s EXCEPT !.tags = Append(@, st.tag)], "Ok")

\* the while loop of delete_tag: [err, val] with val the data block indices
\* of the indirect blocks of the chain
RECURSIVE delete_tag_walk(_, _, _, _)
delete_tag_walk(h, current_indirect, indices, fuel) ==
    IF ~current_indirect.some THEN [err |-> "Ok", val |-> indices]
    ELSE IF fuel = 0 THEN [err |-> "Hang", val |-> indices]
    ELSE LET index == address_to_data_index(current_indirect.v)
             block == read_indirect_tag(h, current_indirect.v)
         IN IF ~index.some THEN [err |-> "Panic", val |-> indices]
            ELSE IF ~block.some THEN [err |-> "CorruptedIndirectTag", val |-> indices]
            ELSE delete_tag_walk(h, IndirectTagBlock_next(block.v),
                                 Append(indices, index.v), fuel - 1)

\* set_bit(index, false) for every index of a sequence: [ok, bm]
RECURSIVE free_indices(_, _)
free_indices(bm, indices) ==
    IF indices = <<>> THEN [ok |-> TRUE, bm |-> bm]
    ELSE LET sb == set_bit(bm, Head(indices), FALSE)
         IN IF ~sb.ok THEN sb ELSE free_indices(sb.bm, Tail(indices))

\* Disk::delete_tag
delete_tag(s, index) ==
    LET li == locate_tag(s, index)
    IN IF ~li.some THEN Ret(s, "CouldNotFindTag")
       ELSE LET local_tag == s.tags[li.v]
                w == delete_tag_walk(s.h, TagBlock_indirect_pointer(local_tag), <<>>, Fuel)
            IN IF w.err # "Ok" THEN Ret(s, w.err)
               ELSE LET fb == free_indices(s.block_bitmap, w.val)
                        s1 == [s EXCEPT !.block_bitmap = fb.bm]
                        ft == set_bit(s1.tag_bitmap, local_tag.index, FALSE)
                    IN IF ~fb.ok THEN Ret(s1, "FailedToFreeBlock")
                       ELSE IF ~ft.ok THEN Ret(s1, "FailedToFreeTag")
                       ELSE Ret(write_bitmaps(
                                  [s1 EXCEPT !.tag_bitmap = ft.bm,
                                             !.tags = [k \in 1..(Len(@) - 1) |->
                                                          IF k < li.v THEN @[k] ELSE @[k + 1]]]),
                                "Ok")

\* the while loop of apply_tag over the indirect chain:
\* [err, previous_indirect, previous_indirect_location, free_indirect_tag_address]
RECURSIVE apply_tag_walk(_, _, _, _, _, _, _)
apply_tag_walk(h, next_address, member, previous_indirect, previous_location, free, fuel) ==
    IF ~next_address.some
    THEN [err |-> "Ok", previous_indirect |-> previous_indirect,
          previous_location |-> previous_location, free |-> free]
    ELSE IF fuel = 0
    THEN [err |-> "Hang", previous_indirect |-> previous_indirect,
          previous_location |-> previous_location, free |-> free]
    ELSE LET indirect_tag == read_indirect_tag(h, next_address.v)
         IN IF ~indirect_tag.some
            THEN [err |-> "CorruptedIndirectTag", previous_indirect |-> previous_indirect,
                  previous_location |-> previous_location, free |-> free]
            ELSE IF IndirectTagBlock_contains_member(indirect_tag.v, member)
            THEN [err |-> "TagAlreadyAppliedToINode", previous_indirect |-> previous_indirect,
                  previous_location |-> previous_location, free |-> free]
            ELSE apply_tag_walk(h, IndirectTagBlock_next(indirect_tag.v), member,
                     indirect_tag, next_address,
                     IF ~free.some /\ indirect_tag.v.number_of_members < MaxTagMembers
                     THEN next_address ELSE free,
                     fuel - 1)

\* apply_tag_new_block without the set_bit of the block it takes
apply_tag_new_block_unmarked(s, ti, member, w) ==
    LET indirect_tag == IndirectTagBlock_new(s.tags[ti].index, <<member>>, 0)
        fb == find_block(s)
    IN IF fb.err # "Ok" THEN Ret(s, fb.err)
       ELSE IF ~fb.val.some THEN Ret(s, "NotEnoughFreeDataBlocks")
       ELSE LET location == data_index_to_address(fb.val.v)
                w1 == write_cell(s.h, location, IndirectTagBlock_to_bytes(indirect_tag))
                s2 == write_bitmaps([s EXCEPT !.h = w1.h])
            IN IF ~w1.ok THEN Ret(s, "BackendError")
               ELSE IF w.previous_indirect.some
               THEN LET i == IndirectTagBlock_set_next(w.previous_indirect.v, location)
                        w2 == write_cell(s2.h, w.previous_location.v,
                                         IndirectTagBlock_to_bytes(i))
                    IN IF ~w2.ok THEN Ret(s2, "BackendError")
                       ELSE Ret([s2 EXCEPT !.h = w2.h], "Ok")
               ELSE LET t == TagBlock_set_indirect(s2.tags[ti], location)
                    IN Ret(write_tag([s2 EXCEPT !.tags[ti] = t], t), "Ok")

\* apply_tag, the branch that creates a new indirect tag block
apply_tag_new_block(s, ti, member, w) ==
    LET indirect_tag == IndirectTagBlock_new(s.tags[ti].index, <<member>>, 0)
        fb == find_block(s)
    IN IF fb.err # "Ok" THEN Ret(s, fb.err)
       ELSE IF ~fb.val.some THEN Ret(s, "NotEnoughFreeDataBlocks")
       ELSE LET index == fb.val.v
                location == data_index_to_address(index)
                s1 == [s EXCEPT !.block_bitmap = set_bit(@, index, TRUE).bm]
                w1 == write_cell(s1.h, location, IndirectTagBlock_to_bytes(indirect_tag))
                s2 == write_bitmaps([s1 EXCEPT !.h = w1.h])
            IN IF ~w1.ok THEN Ret(s1, "BackendError")
               ELSE IF w.previous_indirect.some
               THEN LET i == IndirectTagBlock_set_next(w.previous_indirect.v, location)
                        w2 == write_cell(s2.h, w.previous_location.v,
                                         IndirectTagBlock_to_bytes(i))
                    IN IF ~w2.ok THEN Ret(s2, "BackendError")
                       ELSE Ret([s2 EXCEPT !.h = w2.h], "Ok")
               ELSE LET t == TagBlock_set_indirect(s2.tags[ti], location)
                    IN Ret(write_tag([s2 EXCEPT !.tags[ti] = t], t), "Ok")

\* apply_tag, the branch that appends to an indirect block with a free spot
apply_tag_free_spot(s, member, address) ==
    LET indirect == read_indirect_tag(s.h, address)
    IN IF ~indirect.some THEN Ret(s, "CorruptedIndirectTag")
       ELSE LET ap == IndirectTagBlock_append_member(
                          IndirectTagBlock_set_block_size(indirect.v), member)
                w1 == write_cell(s.h, address, IndirectTagBlock_to_bytes(ap.b))
            IN IF ~ap.ok THEN Ret(s, "FailedIndirectTagAppend")
               ELSE IF ~w1.ok THEN Ret(s, "BackendError")
               ELSE Ret([s EXCEPT !.h = w1.h], "Ok")

\* apply_tag, the branch that adds the member to the tag block itself
apply_tag_local(s, ti, member) ==
    IF TagBlock_contains_member(s.tags[ti], member)
    THEN Ret(s, "TagAlreadyAppliedToINode")
    ELSE LET t == TagBlock_append_member(s.tags[ti], member)
         IN Ret(write_tag([s EXCEPT !.tags[ti] = t], t), "Ok")

\* Disk::apply_tag
apply_tag(s, tag_index, inode_index) ==
    LET li == locate_inode(s, inode_index)
        ti == locate_tag(s, tag_index)
    IN IF ~li.some THEN Ret(s, "CouldNotFindINode")
       ELSE IF ~ti.some THEN Ret(s, "CouldNotFindTag")
       ELSE LET member == s.inodes[li.v].index
                tag == s.tags[ti.v]
            IN IF tag.number_of_pointers >= MAXIMUM_LOCAL_MEMBERS
               THEN IF TagBlock_contains_member(tag, member)
                    THEN Ret(s, "TagAlreadyAppliedToINode")
                    ELSE LET w == apply_tag_walk(s.h, TagBlock_indirect_pointer(tag), member,
                                                 None, None, None, Fuel)
                         IN IF w.err # "Ok" THEN Ret(s, w.err)
                            ELSE IF ~w.free.some
                            THEN apply_tag_new_block(s, ti.v, member, w)
                            ELSE apply_tag_free_spot(s, member, w.free.v)
               ELSE apply_tag_local(s, ti.v, member)

\* the first position (from 0) of a value in a sequence, None if absent
position(q, x) ==
    LET hits == {k \in 1..Len(q) : q[k] = x}
    IN IF hits = {} THEN None ELSE Some((CHOOSE k \in hits : \A j \in hits : k <= j) - 1)

\* remove_tag_from_inode_optional_prune, the block that holds the member:
\* removes it and prunes or rewrites the block
remove_tag_found(s, ti, address, block, i, parent, parent_address, prune) ==
    LET b == IndirectTagBlock_remove_member_at(block, i)
    IN IF prune /\ b.number_of_members = 0
       THEN LET index == address_to_data_index(address)
            IN IF ~index.some THEN Ret(s, "Panic")
               ELSE IF parent.some
               THEN LET cp == IndirectTagBlock_set_next_optional(parent.v, IndirectTagBlock_next(b))
                        s1 == write_bitmaps(
                                 [s EXCEPT !.block_bitmap = set_bit(@, index.v, FALSE).bm])
                        w1 == write_cell(s1.h, parent_address.v, IndirectTagBlock_to_bytes(cp))
                    IN IF ~w1.ok THEN Ret(s1, "BackendError")
                       ELSE Ret([s1 EXCEPT !.h = w1.h], "Ok")
               ELSE LET t == TagBlock_set_indirect_optional(s.tags[ti], IndirectTagBlock_next(b))
                        s1 == write_bitmaps(
                                 [s EXCEPT !.tags[ti] = t,
                                           !.block_bitmap = set_bit(@, index.v, FALSE).bm])
                    IN Ret(write_tag(s1, t), "Ok")
       ELSE LET w1 == write_cell(s.h, address, IndirectTagBlock_to_bytes(b))
            IN IF ~w1.ok THEN Ret(s, "BackendError")
               ELSE Ret([s EXCEPT !.h = w1.h], "Ok")

\* remove_tag_from_inode_optional_prune, the while loop over the indirect chain
RECURSIVE remove_tag_walk(_, _, _, _, _, _, _, _)
remove_tag_walk(s, ti, member, next, parent, parent_address, prune, fuel) ==
    IF ~next.some THEN Ret(s, "TagNotAppliedToINode")
    ELSE IF fuel = 0 THEN Ret(s, "Hang")
    ELSE LET block == read_indirect_tag(s.h, next.v)
         IN IF ~block.some THEN Ret(s, "CorruptedIndirectTag")
            ELSE LET i == position(block.v.members, member)
                 IN IF i.some
                    THEN remove_tag_found(s, ti, next.v, block.v, i.v, parent,
                                          parent_address, prune)
                    ELSE remove_tag_walk(s, ti, member, IndirectTagBlock_next(block.v),
                                         block, next, prune, fuel - 1)

\* Disk::remove_tag_from_inode_optional_prune
remove_tag_from_inode_optional_prune(s, tag_index, inode_index, prune) ==
    LET li == locate_inode(s, inode_index)
        ti == locate_tag(s, tag_index)
    IN IF ~li.some THEN Ret(s, "CouldNotFindINode")
       ELSE IF ~ti.some THEN Ret(s, "CouldNotFindTag")
       ELSE LET member == s.inodes[li.v].index
                tag == s.tags[ti.v]
                i == position(tag.members, member)
            IN IF i.some
               THEN LET t == TagBlock_remove_member_at(tag, i.v)
                    IN Ret(write_tag([s EXCEPT !.tags[ti.v] = t], t), "Ok")
               ELSE remove_tag_walk(s, ti.v, member, TagBlock_indirect_pointer(tag),
                                    None, None, prune, Fuel)

\* Disk::remove_tag_from_inode
remove_tag_from_inode(s, tag_index, inode_index) ==
    remove_tag_from_inode_optional_prune(s, tag_index, inode_index, TRUE)

\* the stores that the three writes of write_bitmaps leave, one after the other
write_bitmaps_log(s) ==
    LET h1 == [s.h EXCEPT !.tag_map = BitMap_as_bytes(s.tag_bitmap)]
        h2 == [h1 EXCEPT !.inode_map = BitMap_as_bytes(s.inode_bitmap)]
        h3 == [h2 EXCEPT !.block_map = BitMap_as_bytes(s.block_bitmap)]
    IN <<h1, h2, h3>>

\* the backend writes of remove_tag_found in the order the code issues them:
\* the store after each write; when the emptied block is pruned the bitmaps
\* are written first and the parent block or the tag after them
remove_tag_found_log(s, ti, address, block, i, parent, parent_address, prune) ==
    LET b == IndirectTagBlock_remove_member_at(block, i)
    IN IF prune /\ b.number_of_members = 0
       THEN LET index == address_to_data_index(address)
            IN IF ~index.some THEN <<>>
               ELSE LET maps == write_bitmaps_log(
                                   [s EXCEPT !.block_bitmap = set_bit(@, index.v, FALSE).bm])
                    IN IF parent.some
                       THEN LET cp == IndirectTagBlock_set_next_optional(
                                          parent.v, IndirectTagBlock_next(b))
                                w1 == write_cell(maps[3], parent_address.v,
                                                 IndirectTagBlock_to_bytes(cp))
                            IN IF w1.ok THEN maps \o <<w1.h>> ELSE maps
                       ELSE LET t == TagBlock_set_indirect_optional(
                                         s.tags[ti], IndirectTagBlock_next(b))
                            IN maps \o <<[maps[3] EXCEPT !.tag_region[t.index] =
                                                             TagBlock_to_bytes(t)]>>
       ELSE LET w1 == write_cell(s.h, address, IndirectTagBlock_to_bytes(b))
            IN IF w1.ok THEN <<w1.h>> ELSE <<>>

\* the while loop over the indirect chain, for the writes of the block found
RECURSIVE remove_tag_walk_log(_, _, _, _, _, _, _, _)
remove_tag_walk_log(s, ti, member, next, parent, parent_address, prune, fuel) ==
    IF ~next.some \/ fuel = 0 THEN <<>>
    ELSE LET block == read_indirect_tag(s.h, next.v)
         IN IF ~block.some THEN <<>>
            ELSE LET i == position(block.v.members, member)
                 IN IF i.some
                    THEN remove_tag_found_log(s, ti, next.v, block.v, i.v, parent,
                                              parent_address, prune)
                    ELSE remove_tag_walk_log(s, ti, member, IndirectTagBlock_next(block.v),
                                             block, next, prune, fuel - 1)

\* the backend writes of remove_tag_from_inode(tag_index, inode_index), in
\* order: the store after each of them
remove_tag_from_inode_log(s, tag_index, inode_index) ==
    LET li == locate_inode(s, inode_index)
        ti == locate_tag(s, tag_index)
    IN IF ~li.some \/ ~ti.some THEN <<>>
       ELSE LET member == s.inodes[li.v].index
                tag == s.tags[ti.v]
                i == position(tag.members, member)
            IN IF i.some
               THEN <<write_tag([s EXCEPT !.tags[ti.v] =
                                    TagBlock_remove_member_at(tag, i.v)],
                                TagBlock_remove_member_at(tag, i.v)).h>>
               ELSE remove_tag_walk_log(s, ti.v, member, TagBlock_indirect_pointer(tag),
                                        None, None, TRUE, Fuel)

\* the loop of load_nodes_with_tag over the cached inodes: every inode whose
\* index is among the members, in cache order, each member consumed once
RECURSIVE match_nodes(_, _)
match_nodes(nodes, members) ==
    IF nodes = <<>> \/ members = <<>> THEN <<>>
    ELSE LET i == position(members, Head(nodes).index)
         IN IF i.some
            THEN <<Head(nodes)>> \o
                 match_nodes(Tail(nodes),
                             [k \in 1..(Len(members) - 1) |->
                                 IF k - 1 < i.v THEN members[k] ELSE members[k + 1]])
            ELSE match_nodes(Tail(nodes), members)

\* load_nodes_with_tag, the loop over the indirect chain: [err, val]
RECURSIVE load_nodes_walk(_, _, _, _)
load_nodes_walk(s, next_address, nodes, fuel) ==
    IF ~next_address.some THEN [err |-> "Ok", val |-> nodes]
    ELSE IF fuel = 0 THEN [err |-> "Hang", val |-> nodes]
    ELSE LET block == read_indirect_tag(s.h, next_address.v)
         IN IF ~block.some THEN [err |-> "CorruptedIndirectTag", val |-> nodes]
            ELSE load_nodes_walk(s, IndirectTagBlock_next(block.v),
                                 nodes \o match_nodes(s.inodes, block.v.members), fuel - 1)

\* Disk::load_nodes_with_tag
load_nodes_with_tag(s, tag) ==
    LET local == match_nodes(s.inodes, SubSeq(tag.members, 1, tag.number_of_pointers))
    IN load_nodes_walk(s, TagBlock_indirect_pointer(tag), local, Fuel)

\* Disk::list_nodes_with_tag: [err, val]
list_nodes_with_tag(s, tag_index) ==
    LET ti == locate_tag(s, tag_index)
    IN IF ~ti.some THEN [err |-> "CouldNotFindTag", val |-> <<>>]
       ELSE load_nodes_with_tag(s, s.tags[ti.v])


\* list_nodes_with_tags, the loop that locates the tags in the cache:
\* [tags, rest] with rest the indices that were not found
RECURSIVE locate_tags(_, _)
locate_tags(tags, tag_indices_cp) ==
    IF tags = <<>> \/ tag_indices_cp = <<>> THEN [tags |-> <<>>, rest |-> tag_indices_cp]
    ELSE LET i == position(tag_indices_cp, Head(tags).index)
         IN IF i.some
            THEN LET r == locate_tags(Tail(tags),
                              [k \in 1..(Len(tag_indices_cp) - 1) |->
                                  IF k - 1 < i.v THEN tag_indices_cp[k]
                                  ELSE tag_indices_cp[k + 1]])
                 IN [tags |-> <<Head(tags)>> \o r.tags, rest |-> r.rest]
            ELSE locate_tags(Tail(tags), tag_indices_cp)

\* list_nodes_with_tags, the loop over the located tags: the first list is
\* taken, every later list removes the nodes it does not contain
RECURSIVE intersect_tags(_, _, _)
intersect_tags(s, tags, nodes) ==
    IF tags = <<>> THEN [err |-> "Ok", val |-> nodes]
    ELSE LET tag_nodes == load_nodes_with_tag(s, Head(tags))
             contained(n) == \E j \in 1..Len(tag_nodes.val) : tag_nodes.val[j] = n
             kept == IF nodes = <<>> THEN tag_nodes.val ELSE SelectSeq(nodes, contained)
         IN IF tag_nodes.err # "Ok" THEN [err |-> tag_nodes.err, val |-> <<>>]
            ELSE IF kept = <<>> THEN [err |-> "Ok", val |-> kept]
            ELSE intersect_tags(s, Tail(tags), kept)

\* list_nodes_with_tags without the intersection: the list of the first
\* located tag
list_nodes_with_tags_first(s, tag_indices) ==
    LET found == locate_tags(s.tags, tag_indices)
    IN IF found.rest # <<>> THEN [err |-> "CouldNotFindTag", val |-> <<>>]
       ELSE IF found.tags = <<>> THEN [err |-> "Ok", val |-> <<>>]
       ELSE load_nodes_with_tag(s, Head(found.tags))

\* Disk::list_nodes_with_tags: [err, val]
list_nodes_with_tags(s, tag_indices) ==
    LET found == locate_tags(s.tags, tag_indices)
    IN IF found.rest # <<>> THEN [err |-> "CouldNotFindTag", val |-> <<>>]
       ELSE intersect_tags(s, found.tags, <<>>)

\* ------------------------------------------------------------------------
\* File engine: reading
\* ------------------------------------------------------------------------
\* Disk::read_extent / read_between_range: [ok, bytes]; reading a block past
\* the data region fails in the handler
RECURSIVE read_between_range(_, _, _)
read_between_range(h, start, end) ==
    IF start > end THEN [ok |-> TRUE, bytes |-> <<>>]
    ELSE IF start >= BlockCount THEN [ok |-> FALSE, bytes |-> <<>>]
    ELSE LET rest == read_between_range(h, start + 1, end)
         IN [ok |-> rest.ok, bytes |-> CellBytes(h.data[start]) \o rest.bytes]

\* the for loop of read_file_bytes over a list of extents: [err, val]
RECURSIVE read_extents(_, _, _, _)
read_extents(h, extents, result_bytes, num_bytes) ==
    IF extents = <<>> THEN [err |-> "Ok", val |-> result_bytes]
    ELSE LET content == read_between_range(h, Head(extents).start, Head(extents).end)
         IN IF ~content.ok THEN [err |-> "BackendError", val |-> result_bytes]
            ELSE IF Len(content.bytes) + Len(result_bytes) > num_bytes
            THEN read_extents(h, Tail(extents),
                     result_bytes \o SubSeq(content.bytes, 1, num_bytes - Len(result_bytes)),
                     num_bytes)
            ELSE read_extents(h, Tail(extents), result_bytes \o content.bytes, num_bytes)

\* the while loop of read_file_bytes over the indirect chain: [err, val]
RECURSIVE read_indirects(_, _, _, _, _)
read_indirects(h, next, result_bytes, num_bytes, fuel) ==
    IF Len(result_bytes) >= num_bytes THEN [err |-> "Ok", val |-> result_bytes]
    ELSE IF ~next.some THEN [err |-> "ExpectedIndirectNode", val |-> result_bytes]
    ELSE IF fuel = 0 THEN [err |-> "Hang", val |-> result_bytes]
    ELSE LET indirect == read_indirect_inode(h, next.v)
         IN IF ~indirect.some THEN [err |-> "CorruptedIndirectINode", val |-> result_bytes]
            ELSE LET r == read_extents(h, indirect.v.pointers, result_bytes, num_bytes)
                 IN IF r.err # "Ok" THEN r
                    ELSE read_indirects(h, IndirectINode_next(indirect.v), r.val,
                                        num_bytes, fuel - 1)

\* Disk::read_file_bytes: [err, val]; indexing the five inline slots with
\* num_extents above 5 panics
read_file_bytes(s, inode_index, n) ==
    LET li == locate_inode(s, inode_index)
    IN IF ~li.some THEN [err |-> "CouldNotFindINode", val |-> <<>>]
       ELSE LET inode == s.inodes[li.v]
                num_bytes == IF n > inode.size THEN inode.size
                             ELSE IF n = 0 THEN inode.size ELSE n
                inline == read_extents(s.h,
                              SubSeq(inode.blocks, 1, Min(inode.num_extents, INODE_EXTENT_COUNT)),
                              <<>>, num_bytes)
            IN IF inline.err # "Ok" THEN inline
               ELSE IF inode.num_extents > INODE_EXTENT_COUNT
               THEN [err |-> "Panic", val |-> inline.val]
               ELSE read_indirects(s.h, INode_indirect_pointer(inode), inline.val,
                                   num_bytes, Fuel)

\* Disk::read_file
read_file(s, inode_index) == read_file_bytes(s, inode_index, 0)

\* Disk::approximate_file_size: [err, val]
approximate_file_size(s, inode_index) ==
    LET hits == {k \in 1..Len(s.inodes) : s.inodes[k].index = inode_index}
    IN IF hits = {} THEN [err |-> "CouldNotFindINode", val |-> 0]
       ELSE LET inode == s.inodes[CHOOSE k \in hits : \A j \in hits : k <= j]
            IN [err |-> "Ok",
                val |-> inode.size + (BlockSize - (inode.size % BlockSize))]

\* the while loop of file_size over the indirect chain: [err, size]
RECURSIVE file_size_walk(_, _, _, _)
file_size_walk(h, next, physical_size, fuel) ==
    IF ~next.some THEN [err |-> "Ok", size |-> physical_size]
    ELSE IF fuel = 0 THEN [err |-> "Hang", size |-> physical_size]
    ELSE LET indirect == read_indirect_inode(h, next.v)
         IN IF ~indirect.some THEN [err |-> "CorruptedIndirectINode", size |-> physical_size]
            ELSE file_size_walk(h, IndirectINode_next(indirect.v),
                     physical_size
                     + SumSeq([k \in 1..Len(indirect.v.pointers) |->
                                  (indirect.v.pointers[k].end - indirect.v.pointers[k].start + 1)
                                  * BlockSize]),
                     fuel - 1)

\* Disk::file_size: [err, actual_size, physical_size]; indexing the five
\* inline slots with num_extents above 5 panics
file_size(s, inode_index) ==
    LET li == locate_inode(s, inode_index)
    IN IF ~li.some
       THEN [err |-> "CouldNotFindINode", actual_size |-> 0, physical_size |-> 0]
       ELSE LET inode == s.inodes[li.v]
                inline == SumSeq([k \in 1..Min(inode.num_extents, INODE_EXTENT_COUNT) |->
                                     (inode.blocks[k].end - inode.blocks[k].start + 1)
                                     * BlockSize])
                w == file_size_walk(s.h, INode_indirect_pointer(inode), inline, Fuel)
            IN IF inode.num_extents > INODE_EXTENT_COUNT
               THEN [err |-> "Panic", actual_size |-> inode.size, physical_size |-> inline]
               ELSE [err |-> w.err, actual_size |-> inode.size, physical_size |-> w.size]

\* ------------------------------------------------------------------------
\* File engine: create_new_file
\* ------------------------------------------------------------------------
\* the block indices of a sequence of <<start, end>> pairs, in order
RECURSIVE blocks_of(_)
blocks_of(extents) ==
    IF extents = <<>> THEN <<>>
    ELSE [k \in 1..(Head(extents)[2] - Head(extents)[1] + 1) |-> Head(extents)[1] + k - 1]
         \o blocks_of(Tail(extents))

\* the commit loops of create_new_file: mark each block and write its slice
RECURSIVE create_write_blocks(_, _, _, _)
create_write_blocks(s, blocks, contents, contents_offset) ==
    IF blocks = <<>> THEN Ret(s, "Ok")
    ELSE LET i == Head(blocks)
             s1 == [s EXCEPT !.block_bitmap = set_bit(@, i, TRUE).bm]
             last == contents_offset + BlockSize > Len(contents)
             w == write_raw(s1.h, data_index_to_address(i),
                            IF last THEN Slice(contents, contents_offset, Len(contents))
                            ELSE Slice(contents, contents_offset, contents_offset + BlockSize))
         IN IF last /\ contents_offset > Len(contents) THEN Ret(s1, "Panic")
            ELSE IF ~w.ok THEN Ret(s1, "BackendError")
            ELSE create_write_blocks([s1 EXCEPT !.h = w.h], Tail(blocks), contents,
                                     contents_offset + BlockSize)

\* the groups create_new_file builds for the indirect inodes: one group for
\* every i in 5..extents.len(), holding extents[i..] up to the capacity
indirect_groups(extents) ==
    [g \in 1..(Len(extents) - INODE_EXTENT_COUNT) |->
        LET i == INODE_EXTENT_COUNT + g - 1
        IN [k \in 1..Min(MaxIndirectExtents, Len(extents) - i) |->
               Extent(extents[i + k][1], extents[i + k][2])]]

\* the loop over the groups in reverse order: [s, err, previous_address]
RECURSIVE create_indirects(_, _, _, _)
create_indirects(s, groups, g, previous_address) ==
    IF g = 0 THEN [s |-> s, err |-> "Ok", previous_address |-> previous_address]
    ELSE LET block_index == find_next_0_index_up_to(s.block_bitmap, BlockCount)
         IN IF ~block_index.some
            THEN [s |-> s, err |-> "NotEnoughFreeDataBlocks", previous_address |-> previous_address]
            ELSE LET address == data_index_to_address(block_index.v)
                     block == IndirectINode_new(groups[g], previous_address)
                     w == write_cell(s.h, address, IndirectINode_to_bytes(block))
                 IN IF ~w.ok
                    THEN [s |-> s, err |-> "BackendError", previous_address |-> previous_address]
                    ELSE create_indirects(
                             [s EXCEPT !.h = w.h,
                                       !.block_bitmap = set_bit(@, block_index.v, TRUE).bm],
                             groups, g - 1, address)

\* create_new_file, after the indirect inodes are stored (ci): the inode is
\* built and written, its bit set, the bitmaps written, the inode cached
create_inode(inode_index, name, flags, contents, extents, ci) ==
    IF ci.err # "Ok" THEN [s |-> ci.s, err |-> ci.err, index |-> 0]
    ELSE LET inline == [k \in 1..INODE_EXTENT_COUNT |->
                           IF k <= Len(extents)
                           THEN Extent(extents[k][1], extents[k][2])
                           ELSE Extent_zeroed]
             inode == INode_new(inode_index, name, Len(contents), flags, CurrentTime,
                                ci.previous_address, Len(extents), inline)
             sb == set_bit(ci.s.inode_bitmap, inode_index, TRUE)
         IN IF ~sb.ok THEN [s |-> write_inode(ci.s, inode), err |-> "Panic", index |-> 0]
            ELSE [s |-> [write_bitmaps([write_inode(ci.s, inode) EXCEPT !.inode_bitmap = sb.bm])
                            EXCEPT !.inodes = Append(@, inode)],
                  err |-> "Ok", index |-> inode_index]

\* create_new_file, after the data blocks are written (c): the indirect
\* inodes for the extents beyond the fifth
create_extents(inode_index, name, flags, contents, extents, c) ==
    IF c.err # "Ok" THEN [s |-> c.s, err |-> c.err, index |-> 0]
    ELSE create_inode(inode_index, name, flags, contents, extents,
             IF Len(extents) > INODE_EXTENT_COUNT
             THEN create_indirects(c.s, indirect_groups(extents),
                                   Len(extents) - INODE_EXTENT_COUNT, 0)
             ELSE [s |-> c.s, err |-> "Ok", previous_address |-> 0])

\* create_new_file, once an inode slot is found; fb is the result of
\* find_blocks(contents.len())
create_blocks(s, inode_index, name, flags, contents, fb) ==
    IF fb.err # "Ok" THEN [s |-> s, err |-> fb.err, index |-> 0]
    ELSE IF ~fb.val.some THEN [s |-> s, err |-> "NotEnoughFreeDataBlocks", index |-> 0]
    ELSE IF \E k \in 1..Len(blocks_of(fb.val.v)) : blocks_of(fb.val.v)[k] \in s.block_bitmap.bits
    THEN [s |-> s, err |-> "BlockAlreadyAllocated", index |-> 0]
    ELSE create_extents(inode_index, name, flags, contents, fb.val.v,
                        create_write_blocks(s, blocks_of(fb.val.v), contents, 0))

\* Disk::create_new_file: [s, err, index]
create_new_file(s, name, flags, contents) ==
    LET inode_index == find_next_0_index_up_to(s.inode_bitmap, InodeCount)
    IN IF ~validate_name(name) THEN [s |-> s, err |-> "InvalidFileName", index |-> 0]
       ELSE IF ~inode_index.some THEN [s |-> s, err |-> "NoFreeInode", index |-> 0]
       ELSE create_blocks(s, inode_index.v, name, flags, contents,
                          find_blocks(s, Len(contents)))


\* ------------------------------------------------------------------------
\* File engine: append_file_bytes
\* ------------------------------------------------------------------------
\* the first while loop: the last extent of the last indirect inode and the
\* address of the last indirect inode: [err, last_block_extent, previous]
RECURSIVE append_find_last(_, _, _, _, _)
append_find_last(h, next, last_block_extent, previous, fuel) ==
    IF ~next.some
    THEN [err |-> "Ok", last_block_extent |-> last_block_extent, previous |-> previous]
    ELSE IF fuel = 0
    THEN [err |-> "Hang", last_block_extent |-> last_block_extent, previous |-> previous]
    ELSE LET indirect_inode == read_indirect_inode(h, next.v)
         IN IF ~indirect_inode.some
            THEN [err |-> "CorruptedIndirectINode", last_block_extent |-> last_block_extent,
                  previous |-> previous]
            ELSE IF ~IndirectINode_next(indirect_inode.v).some
                    /\ ~IndirectINode_last_extent(indirect_inode.v).some
            THEN [err |-> "Panic", last_block_extent |-> last_block_extent,
                  previous |-> previous]
            ELSE append_find_last(h, IndirectINode_next(indirect_inode.v),
                     IF ~IndirectINode_next(indirect_inode.v).some
                     THEN IndirectINode_last_extent(indirect_inode.v).v
                     ELSE last_block_extent,
                     next, fuel - 1)

\* set_bit(i, true) for every block of a sequence: [ok, bm]
RECURSIVE mark_blocks(_, _)
mark_blocks(bm, blocks) ==
    IF blocks = <<>> THEN [ok |-> TRUE, bm |-> bm]
    ELSE LET sb == set_bit(bm, Head(blocks), TRUE)
         IN IF ~sb.ok THEN sb ELSE mark_blocks(sb.bm, Tail(blocks))

\* the loop that appends extents to the inode while it has a free slot:
\* [n, remaining]
RECURSIVE append_inline(_, _, _)
append_inline(n, extents, remaining) ==
    IF n.num_extents < INODE_EXTENT_COUNT /\ remaining > 0
    THEN append_inline(INode_append_extent(n, extents[Len(extents) - remaining + 1]).n,
                       extents, remaining - 1)
    ELSE [n |-> n, remaining |-> remaining]

\* the inner loop that appends extents to one indirect inode: [b, remaining]
RECURSIVE append_to_indirect(_, _, _)
append_to_indirect(b, extents, remaining) ==
    IF remaining > 0 /\ IndirectINode_append_extent(b, extents[Len(extents) - remaining + 1]).ok
    THEN append_to_indirect(
             IndirectINode_append_extent(b, extents[Len(extents) - remaining + 1]).b,
             extents, remaining - 1)
    ELSE [b |-> b, remaining |-> remaining]

\* the loop over the existing indirect chain: [s, err, remaining]
RECURSIVE append_chain(_, _, _, _, _)
append_chain(s, next, extents, remaining, fuel) ==
    IF ~(next.some /\ remaining > 0) THEN [s |-> s, err |-> "Ok", remaining |-> remaining]
    ELSE IF fuel = 0 THEN [s |-> s, err |-> "Hang", remaining |-> remaining]
    ELSE LET indirect_inode == read_indirect_inode(s.h, next.v)
         IN IF ~indirect_inode.some
            THEN [s |-> s, err |-> "CorruptedIndirectINode", remaining |-> remaining]
            ELSE LET a == append_to_indirect(
                              IndirectINode_set_maximum_extents_blocksize(indirect_inode.v),
                              extents, remaining)
                     w == write_cell(s.h, next.v, IndirectINode_to_bytes(a.b))
                     s1 == IF a.remaining # remaining THEN [s EXCEPT !.h = w.h] ELSE s
                 IN append_chain(s1, IndirectINode_next(a.b), extents, a.remaining, fuel - 1)

\* the block that creates a new indirect inode for the extents that are left
append_new_indirect(s, li, extents, remaining, previous) ==
    LET fb == find_block(s)
    IN IF remaining > MaxIndirectExtents THEN Ret(s, "Panic")
       ELSE IF fb.err # "Ok" THEN Ret(s, fb.err)
       ELSE IF ~fb.val.some THEN Ret(s, "NotEnoughFreeDataBlocks")
       ELSE LET index == fb.val.v
                new_indirect == IndirectINode_new(
                                    SubSeq(extents, Len(extents) - remaining + 1, Len(extents)), 0)
                indirect_address == data_index_to_address(index)
                sb == set_bit(s.block_bitmap, index, TRUE)
                s1 == [s EXCEPT !.block_bitmap = sb.bm]
            IN IF index \in s.block_bitmap.bits THEN Ret(s, "BlockAlreadyAllocated")
               ELSE IF ~sb.ok THEN Ret(s, "FailedToSetBitmapBit")
               ELSE LET s2 ==
                          IF previous.some
                          THEN LET pi == read_indirect_inode(s1.h, previous.v)
                               IN IF ~pi.some THEN Ret(s1, "CorruptedIndirectINode")
                                  ELSE Ret([s1 EXCEPT !.h =
                                               write_cell(@, previous.v,
                                                   IndirectINode_to_bytes(
                                                       IndirectINode_set_next(pi.v, indirect_address))).h],
                                           "Ok")
                          ELSE Ret([s1 EXCEPT !.inodes[li] =
                                       INode_set_indirect_pointer(@, Some(indirect_address))],
                                   "Ok")
                        w == write_cell(s2.s.h, indirect_address,
                                        IndirectINode_to_bytes(new_indirect))
                    IN IF s2.err # "Ok" THEN s2
                       ELSE IF ~w.ok THEN Ret(s2.s, "BackendError")
                       ELSE Ret([s2.s EXCEPT !.h = w.h], "Ok")

\* the loop that writes the new blocks: block number offset receives
\* bytes[amount_available..bytes_end_index], cut at the end of bytes
RECURSIVE append_write_blocks(_, _, _, _, _)
append_write_blocks(s, blocks, bytes, amount_available, offset) ==
    IF blocks = <<>> THEN Ret(s, "Ok")
    ELSE LET bytes_end_index == amount_available + (offset + 1) * BlockSize
             w == write_raw(s.h, data_index_to_address(Head(blocks)),
                            IF bytes_end_index >= Len(bytes)
                            THEN Slice(bytes, amount_available, Len(bytes))
                            ELSE Slice(bytes, amount_available, bytes_end_index))
         IN IF ~w.ok THEN Ret(s, "BackendError")
            ELSE append_write_blocks([s EXCEPT !.h = w.h], Tail(blocks), bytes,
                                     amount_available, offset + 1)

\* append_file_bytes, the writes that end it: the first amount_available
\* bytes behind the old contents, the new blocks, the size and the inode; ni
\* is the result of storing the extents
append_commit(li, bytes, amount_available, address, blocks, ni) ==
    IF ni.err # "Ok" THEN ni
    ELSE LET w == write_raw(ni.s.h, address, SubSeq(bytes, 1, amount_available))
             wb == append_write_blocks([ni.s EXCEPT !.h = w.h], blocks, bytes,
                                       amount_available, 0)
             n2 == INode_increase_file_size(wb.s.inodes[li], Len(bytes))
         IN IF ~w.ok THEN Ret(ni.s, "BackendError")
            ELSE IF wb.err # "Ok" THEN wb
            ELSE Ret(write_inode([wb.s EXCEPT !.inodes[li] = n2], n2), "Ok")

\* append_file_bytes, after the loop over the existing chain returned ch: a
\* new indirect inode for the extents that are left, then the writes
append_link(li, bytes, amount_available, address, previous, blocks, extents, ch) ==
    IF ch.err # "Ok" THEN Ret(ch.s, ch.err)
    ELSE append_commit(li, bytes, amount_available, address, blocks,
             IF ch.remaining > 0
             THEN append_new_indirect(ch.s, li, extents, ch.remaining, previous)
             ELSE Ret(ch.s, "Ok"))

\* append_file_bytes, the branch that allocates more data blocks; fb is the
\* result of find_blocks(bytes.len() - amount_available)
append_allocate(s, li, inode, bytes, amount_available, address, previous, fb) ==
    IF fb.err # "Ok" THEN Ret(s, fb.err)
    ELSE IF ~fb.val.some THEN Ret(s, "NotEnoughFreeDataBlocks")
    ELSE LET blocks == blocks_of(fb.val.v)
             extents == [k \in 1..Len(fb.val.v) |-> Extent(fb.val.v[k][1], fb.val.v[k][2])]
             mk == mark_blocks(s.block_bitmap, blocks)
             ai == append_inline(s.inodes[li], extents, Len(extents))
             s1 == [s EXCEPT !.block_bitmap = mk.bm, !.inodes[li] = ai.n]
         IN IF \E k \in 1..Len(blocks) : blocks[k] \in s.block_bitmap.bits
            THEN Ret(s, "BlockAlreadyAllocated")
            ELSE IF ~mk.ok THEN Ret([s EXCEPT !.block_bitmap = mk.bm], "FailedToSetBitmapBit")
            ELSE append_link(li, bytes, amount_available, address, previous, blocks, extents,
                     append_chain(s1, INode_indirect_pointer(inode), extents, ai.remaining,
                                  Fuel))

\* Disk::append_file_bytes
append_file_bytes(s, inode_index, bytes) ==
    LET li == locate_inode(s, inode_index)
    IN IF ~li.some THEN Ret(s, "CouldNotFindINode")
       ELSE LET inode == s.inodes[li.v]
            IN IF inode.num_extents = 0 \/ inode.num_extents > INODE_EXTENT_COUNT
               THEN Ret(s, "Panic")
               ELSE LET fl == append_find_last(s.h, INode_indirect_pointer(inode),
                                               inode.blocks[inode.num_extents], None, Fuel)
                        amount_available == BlockSize - (inode.size % BlockSize)
                        address == data_index_to_address(fl.last_block_extent.end)
                                   + (BlockSize - amount_available)
                    IN IF fl.err # "Ok" THEN Ret(s, fl.err)
                       ELSE IF amount_available > Len(bytes)
                       THEN LET w == write_raw(s.h, address, bytes)
                                n2 == INode_increase_file_size(s.inodes[li.v], Len(bytes))
                            IN IF ~w.ok THEN Ret(s, "BackendError")
                               ELSE Ret(write_inode([s EXCEPT !.h = w.h, !.inodes[li.v] = n2], n2),
                                        "Ok")
                       ELSE append_allocate(s, li.v, inode, bytes, amount_available, address,
                                            fl.previous,
                                            find_blocks(s, Len(bytes) - amount_available))

\* ------------------------------------------------------------------------
\* File engine: delete_file
\* ------------------------------------------------------------------------
\* the while loop over the indirect chain: [err, extents, indirect_indexes]
RECURSIVE delete_file_walk(_, _, _, _, _)
delete_file_walk(h, next, extents, indirect_indexes, fuel) ==
    IF ~next.some
    THEN [err |-> "Ok", extents |-> extents, indirect_indexes |-> indirect_indexes]
    ELSE IF fuel = 0
    THEN [err |-> "Hang", extents |-> extents, indirect_indexes |-> indirect_indexes]
    ELSE LET indirect == read_indirect_inode(h, next.v)
             data_block_index == address_to_data_index(next.v)
         IN IF ~indirect.some
            THEN [err |-> "CorruptedIndirectINode", extents |-> extents,
                  indirect_indexes |-> indirect_indexes]
            ELSE IF ~data_block_index.some
            THEN [err |-> "Panic", extents |-> extents, indirect_indexes |-> indirect_indexes]
            ELSE delete_file_walk(h, IndirectINode_next(indirect.v),
                                  extents \o indirect.v.pointers,
                                  Append(indirect_indexes, data_block_index.v), fuel - 1)

\* the loop over the tags: remove the inode from each, TagNotAppliedToINode
\* is not an error
RECURSIVE delete_file_untag(_, _, _)
delete_file_untag(s, indices, inode_index) ==
    IF indices = <<>> THEN Ret(s, "Ok")
    ELSE LET continue(r) ==
                 IF r.err \in {"Ok", "TagNotAppliedToINode"}
                 THEN delete_file_untag(r.s, Tail(indices), inode_index)
                 ELSE r
         IN continue(remove_tag_from_inode(s, Head(indices), inode_index))

\* the block indices of a sequence of extents, in order
RECURSIVE extent_blocks(_)
extent_blocks(extents) ==
    IF extents = <<>> THEN <<>>
    ELSE [k \in 1..(Head(extents).end - Head(extents).start + 1) |-> Head(extents).start + k - 1]
         \o extent_blocks(Tail(extents))

\* delete_file, after the loop over the tags returned ut: the blocks and the
\* inode are marked free, the inode leaves the cache, the bitmaps are written
delete_file_free(local_index, index, indirect_indexes, extents, ut) ==
    IF ut.err # "Ok" THEN ut
    ELSE LET f1 == free_indices(ut.s.block_bitmap, indirect_indexes)
             f2 == free_indices(f1.bm, extent_blocks(extents))
             fi == set_bit(ut.s.inode_bitmap, index, FALSE)
         IN IF ~f1.ok THEN Ret([ut.s EXCEPT !.block_bitmap = f1.bm], "FailedToFreeBlock")
            ELSE IF ~f2.ok THEN Ret([ut.s EXCEPT !.block_bitmap = f2.bm], "FailedToFreeBlock")
            ELSE IF ~fi.ok THEN Ret([ut.s EXCEPT !.block_bitmap = f2.bm], "FailedToFreeINode")
            ELSE Ret(write_bitmaps(
                       [ut.s EXCEPT !.block_bitmap = f2.bm,
                                    !.inode_bitmap = fi.bm,
                                    !.inodes = [k \in 1..(Len(@) - 1) |->
                                                   IF k < local_index THEN @[k] ELSE @[k + 1]]]),
                     "Ok")

\* Disk::delete_file
delete_file(s, inode_index) ==
    LET li == locate_inode(s, inode_index)
    IN IF ~li.some THEN Ret(s, "CouldNotFindINode")
       ELSE LET inode == s.inodes[li.v]
                w == delete_file_walk(s.h, INode_indirect_pointer(inode), <<>>, <<>>, Fuel)
            IN IF w.err # "Ok" THEN Ret(s, w.err)
               ELSE delete_file_free(li.v, inode.index, w.indirect_indexes,
                        w.extents \o inode.blocks,
                        delete_file_untag(s, [k \in 1..Len(s.tags) |-> s.tags[k].index],
                                          inode.index))

\* ------------------------------------------------------------------------
\* Mount / format
\* ------------------------------------------------------------------------
\* Disk::load_tags: [err, val]
RECURSIVE load_tags(_, _, _)
load_tags(h, bm, i) ==
    IF i >= TagCount THEN [err |-> "Ok", val |-> <<>>]
    ELSE IF ~bit_at(bm, i).some THEN [err |-> "Panic", val |-> <<>>]
    ELSE IF ~bit_at(bm, i).v THEN load_tags(h, bm, i + 1)
    ELSE LET t == TagBlock_from_bytes(h.tag_region[i])
             rest == load_tags(h, bm, i + 1)
         IN IF ~t.some THEN [err |-> "CorruptedTag", val |-> <<>>]
            ELSE [err |-> rest.err, val |-> <<t.v>> \o rest.val]

\* Disk::load_inodes: [err, val]
RECURSIVE load_inodes(_, _, _)
load_inodes(h, bm, i) ==
    IF i >= InodeCount THEN [err |-> "Ok", val |-> <<>>]
    ELSE IF ~bit_at(bm, i).some THEN [err |-> "Panic", val |-> <<>>]
    ELSE IF ~bit_at(bm, i).v THEN load_inodes(h, bm, i + 1)
    ELSE LET n == INode_from_bytes(h.inode_region[i])
             rest == load_inodes(h, bm, i + 1)
         IN IF ~n.some THEN [err |-> "CorruptedINode", val |-> <<>>]
            ELSE [err |-> rest.err, val |-> <<n.v>> \o rest.val]

\* Disk::open_disk on a store: [s, err]
open_disk(h) ==
    LET tag_bitmap == BitMap_from_bytes(h.tag_map)
        inode_bitmap == BitMap_from_bytes(h.inode_map)
        block_bitmap == BitMap_from_bytes(h.block_map)
        lt == load_tags(h, tag_bitmap, 0)
        ln == load_inodes(h, inode_bitmap, 0)
        mk(tags, inodes) == [tag_bitmap |-> tag_bitmap, inode_bitmap |-> inode_bitmap,
                             block_bitmap |-> block_bitmap, tags |-> tags,
                             inodes |-> inodes, h |-> h]
    IN IF lt.err # "Ok" THEN Ret(mk(<<>>, <<>>), lt.err)
       ELSE IF ln.err # "Ok" THEN Ret(mk(lt.val, <<>>), ln.err)
       ELSE Ret(mk(lt.val, ln.val), "Ok")

\* the store before mkfs: every byte is zero
BlankStore ==
    [tag_map |-> [k \in 1..(BitMap_new(TagCount).words * 8) |-> 0],
     inode_map |-> [k \in 1..(BitMap_new(InodeCount).words * 8) |-> 0],
     block_map |-> [k \in 1..(BitMap_new(BlockCount).words * 8) |-> 0],
     tag_region |-> [i \in 0..(TagCount - 1) |-> ZeroTagBytes],
     inode_region |-> [i \in 0..(InodeCount - 1) |-> ZeroINodeBytes],
     data |-> [i \in 0..(BlockCount - 1) |-> ZeroCell]]

\* Disk::make_new_filesystem on a blank store: the Disk it returns
make_new_filesystem ==
    LET root_tag == TagBlock_new(0, RootName, [read |-> TRUE, write |-> TRUE], CurrentTime,
                                 0, 0, [k \in 1..MAXIMUM_LOCAL_MEMBERS |-> 0])
        new_disk == [tag_bitmap |-> BitMap_new(TagCount),
                     inode_bitmap |-> BitMap_new(InodeCount),
                     block_bitmap |-> BitMap_new(BlockCount),
                     tags |-> <<root_tag>>,
                     inodes |-> <<>>,
                     h |-> BlankStore]
    IN write_bitmaps(store_tag_first_free(new_disk, root_tag).s)


\* ------------------------------------------------------------------------
\* What a Disk value references: chains, extents, members
\* ------------------------------------------------------------------------
RECURSIVE Concat(_)
Concat(qs) == IF qs = <<>> THEN <<>> ELSE Head(qs) \o Concat(Tail(qs))

NoDuplicates(q) == \A a, b \in 1..Len(q) : a # b => q[a] # q[b]

\* the indirect inodes of a chain, as [address, block], up to the first block
\* that does not parse
RECURSIVE inode_chain(_, _, _)
inode_chain(h, next, fuel) ==
    IF ~next.some \/ fuel = 0 THEN <<>>
    ELSE LET b == read_indirect_inode(h, next.v)
         IN IF ~b.some THEN <<>>
            ELSE <<[address |-> next.v, block |-> b.v]>>
                 \o inode_chain(h, IndirectINode_next(b.v), fuel - 1)

\* the indirect tag blocks of a chain, as [address, block]
RECURSIVE tag_chain(_, _, _)
tag_chain(h, next, fuel) ==
    IF ~next.some \/ fuel = 0 THEN <<>>
    ELSE LET b == read_indirect_tag(h, next.v)
         IN IF ~b.some THEN <<>>
            ELSE <<[address |-> next.v, block |-> b.v]>>
                 \o tag_chain(h, IndirectTagBlock_next(b.v), fuel - 1)

\* the extents of an inode: its used inline slots, then those of its chain
inode_extents(s, n) ==
    LET ch == inode_chain(s.h, INode_indirect_pointer(n), Fuel)
    IN SubSeq(n.blocks, 1, Min(n.num_extents, INODE_EXTENT_COUNT))
       \o Concat([k \in 1..Len(ch) |-> ch[k].block.pointers])

\* the data block indices that hold the indirect inodes of an inode
inode_indirect_blocks(s, n) ==
    LET ch == inode_chain(s.h, INode_indirect_pointer(n), Fuel)
    IN [k \in 1..Len(ch) |-> AddressIndex(ch[k].address)]

\* the data block indices that hold the indirect blocks of a tag
tag_indirect_blocks(s, t) ==
    LET ch == tag_chain(s.h, TagBlock_indirect_pointer(t), Fuel)
    IN [k \in 1..Len(ch) |-> AddressIndex(ch[k].address)]

\* the members of a tag: its used local slots, then those of its chain
tag_members(s, t) ==
    LET ch == tag_chain(s.h, TagBlock_indirect_pointer(t), Fuel)
    IN SubSeq(t.members, 1, t.number_of_pointers)
       \o Concat([k \in 1..Len(ch) |-> ch[k].block.members])

\* every data block index that lies in an extent of a live inode, with
\* repetitions
all_extent_blocks(s) ==
    Concat([k \in 1..Len(s.inodes) |-> extent_blocks(inode_extents(s, s.inodes[k]))])

\* every data block index that holds an indirect block of a live inode or tag
all_indirect_blocks(s) ==
    Concat([k \in 1..Len(s.inodes) |-> inode_indirect_blocks(s, s.inodes[k])])
    \o Concat([k \in 1..Len(s.tags) |-> tag_indirect_blocks(s, s.tags[k])])

\* the set bits of the data bitmap below block_count
data_bits(s) == {b \in 0..(BlockCount - 1) : b \in s.block_bitmap.bits}

\* the indices of the inodes list_nodes_with_tag returns
listed(s, tag_index) ==
    LET r == list_nodes_with_tag(s, tag_index)
    IN {r.val[k].index : k \in 1..Len(r.val)}

\* ------------------------------------------------------------------------
\* The state machine
\* ------------------------------------------------------------------------
\* disk:  the Disk value and the store behind it
\* alive: FALSE once an operation panicked or never returned, or open_disk
\*        failed: no Disk value exists until the store is opened again
\* last:  the operation that ran last, its arguments and its result
\* track: the file created last, as long as only appends to it followed,
\*        with available_data_blocks before it was created
\* left:  the number of operations the run may still make
\* call:  the call of a function that takes no Disk: its input, and its
\*        output once it has returned
VARIABLES disk, alive, last, track, left, call

vars == <<disk, alive, last, track, left, call>>

\* the number of operations of a run
MaxSteps == 3
\* the number of operations of a run of the tag engine
MaxTagSteps == 8

FileName == <<102>>
TagName == <<116>>
FileFlags == [valid |-> TRUE, read |-> TRUE, write |-> TRUE, execute |-> TRUE]
TagFlagsRW == [read |-> TRUE, write |-> TRUE]

\* contents given to create_new_file
FileContents(n) == [k \in 1..n |-> k]
\* bytes given to append_file_bytes
AppendedBytes(n) == [k \in 1..n |-> 100 + k]

Fatal == {"Panic", "Hang"}

NoTrack == [some |-> FALSE, i |-> 0, base |-> 0]

NoCall == [fn |-> "none", in |-> <<>>, out |-> <<>>, done |-> FALSE]

Record(op, err, tag, inode, bytes) ==
    [op |-> op, err |-> err, tag |-> tag, inode |-> inode, bytes |-> bytes,
     clean |-> last.clean /\ err = "Ok"]

\* the Disk that make_new_filesystem returns, with n operations to run
Fresh(n) ==
    /\ disk = make_new_filesystem
    /\ alive = TRUE
    /\ last = [op |-> "make_new_filesystem", err |-> "Ok", tag |-> 0, inode |-> 0,
               bytes |-> <<>>, clean |-> TRUE]
    /\ track = NoTrack
    /\ left = n
    /\ call = NoCall

Init == Fresh(MaxSteps)

\* an operation of the Disk returned r
Returned(r, op, tag, inode, bytes, tr) ==
    /\ disk' = r.s
    /\ alive' = (r.err \notin Fatal)
    /\ last' = Record(op, r.err, tag, inode, bytes)
    /\ track' = tr
    /\ left' = left - 1
    /\ call' = call

\* create_new_file returned r: the new file is tracked
ReturnedFile(r, contents) ==
    Returned(r, "create_new_file", 0, r.index, contents,
             IF r.err = "Ok"
             THEN [some |-> TRUE, i |-> r.index, base |-> available_data_blocks(disk)]
             ELSE NoTrack)

CreateNewFile(name, contents) ==
    /\ alive /\ left > 0
    /\ ReturnedFile(create_new_file(disk, name, FileFlags, contents), contents)

\* append_file_bytes returned r: the file stays tracked when it returned Ok
ReturnedAppend(r, inode_index, bytes) ==
    Returned(r, "append_file_bytes", 0, inode_index, bytes,
             IF r.err = "Ok" /\ track.some /\ track.i = inode_index THEN track ELSE NoTrack)

AppendFileBytes(inode_index, bytes) ==
    /\ alive /\ left > 0
    /\ ReturnedAppend(append_file_bytes(disk, inode_index, bytes), inode_index, bytes)

DeleteFile(inode_index) ==
    /\ alive /\ left > 0
    /\ Returned(delete_file(disk, inode_index), "delete_file", 0, inode_index, <<>>, NoTrack)

CreateNewTag(name) ==
    /\ alive /\ left > 0
    /\ Returned(create_new_tag(disk, name, TagFlagsRW), "create_new_tag", 0, 0, <<>>, NoTrack)

DeleteTag(tag_index) ==
    /\ alive /\ left > 0
    /\ Returned(delete_tag(disk, tag_index), "delete_tag", tag_index, 0, <<>>, NoTrack)

ApplyTag(tag_index, inode_index) ==
    /\ alive /\ left > 0
    /\ Returned(apply_tag(disk, tag_index, inode_index), "apply_tag", tag_index,
                inode_index, <<>>, NoTrack)

RemoveTagFromInode(tag_index, inode_index) ==
    /\ alive /\ left > 0
    /\ Returned(remove_tag_from_inode(disk, tag_index, inode_index),
                "remove_tag_from_inode", tag_index, inode_index, <<>>, NoTrack)

\* remove_tag_from_inode is cut off after n of its backend writes (power
\* loss, a killed process): the store keeps what the first n writes left
\* and the Disk object is gone
RemoveTagInterrupted(tag_index, inode_index) ==
    /\ alive /\ left > 0
    /\ \E n \in 1..(Len(remove_tag_from_inode_log(disk, tag_index, inode_index)) - 1) :
          disk' = [disk EXCEPT !.h =
                      remove_tag_from_inode_log(disk, tag_index, inode_index)[n]]
    /\ alive' = FALSE
    /\ last' = Record("interrupted", "Interrupted", tag_index, inode_index, <<>>)
    /\ track' = NoTrack
    /\ left' = left - 1
    /\ call' = call

\* open_disk returned r
Opened(r) ==
    /\ disk' = r.s
    /\ alive' = (r.err = "Ok")
    /\ last' = [Record("open_disk", r.err, 0, 0, <<>>)
                   EXCEPT !.clean = last.clean /\ alive /\ r.err = "Ok"]
    /\ track' = NoTrack
    /\ left' = left - 1
    /\ call' = call

\* the Disk value is dropped (or lost) and the store is opened again
OpenDisk ==
    /\ left > 0
    /\ Opened(open_disk(disk.h))

TagIndices == 0..(TagCount - 1)
InodeIndices == 0..(InodeCount - 1)

Next ==
    \/ \E n \in 0..MaxLen : CreateNewFile(FileName, FileContents(n))
    \/ \E i \in InodeIndices, n \in 1..MaxLen : AppendFileBytes(i, AppendedBytes(n))
    \/ \E i \in InodeIndices : DeleteFile(i)
    \/ CreateNewTag(TagName)
    \/ \E t \in TagIndices : DeleteTag(t)
    \/ \E t \in TagIndices, i \in InodeIndices : ApplyTag(t, i)
    \/ \E t \in TagIndices, i \in InodeIndices : RemoveTagFromInode(t, i)
    \/ OpenDisk

Spec == Init /\ [][Next]_vars

\* the tag engine over files of one block each
NextTags ==
    \/ CreateNewFile(FileName, FileContents(1))
    \/ \E i \in InodeIndices : DeleteFile(i)
    \/ \E t \in TagIndices, i \in InodeIndices : ApplyTag(t, i)
    \/ \E t \in TagIndices, i \in InodeIndices : RemoveTagFromInode(t, i)
    \/ \E t \in TagIndices, i \in InodeIndices : RemoveTagInterrupted(t, i)

InitTags == Fresh(MaxTagSteps)

SpecTags == InitTags /\ [][NextTags]_vars

\* the file engine alone: files of one and of two blocks are created, grown
\* by one byte and deleted
MaxFileSteps == 7

NextFiles ==
    \/ \E n \in {BlockSize, 2 * BlockSize, BlockCount * BlockSize} :
          CreateNewFile(FileName, FileContents(n))
    \/ \E i \in InodeIndices : AppendFileBytes(i, AppendedBytes(1))
    \/ \E i \in InodeIndices : DeleteFile(i)

InitFiles == Fresh(MaxFileSteps)

SpecFiles == InitFiles /\ [][NextFiles]_vars

\* the tag engine with tags created and deleted, over empty files and files
\* of one block
MaxListSteps == 8

NextLists ==
    \/ \E n \in {0, 1} : CreateNewFile(FileName, FileContents(n))
    \/ CreateNewTag(TagName)
    \/ \E t \in TagIndices : DeleteTag(t)
    \/ \E t \in TagIndices, i \in InodeIndices : ApplyTag(t, i)
    \/ \E t \in TagIndices, i \in InodeIndices : RemoveTagFromInode(t, i)

InitLists == Fresh(MaxListSteps)

SpecLists == InitLists /\ [][NextLists]_vars


\* names given to create_new_file and create_new_tag: one well-formed name,
\* and every forbidden character alone and after a permitted character
BadNames ==
    {<<c>> : c \in FORBIDDEN_CHARACTERS} \cup {<<102, c>> : c \in FORBIDDEN_CHARACTERS}

Names == {FileName} \cup BadNames

MaxNameSteps == 5

\* the operations that take a name, on stores of every occupancy
NextNames ==
    \/ \E name \in Names, n \in {0, 1} : CreateNewFile(name, FileContents(n))
    \/ \E name \in Names : CreateNewTag(name)
    \/ \E i \in InodeIndices : DeleteFile(i)
    \/ \E t \in TagIndices : DeleteTag(t)

InitNames == Fresh(MaxNameSteps)

SpecNames == InitNames /\ [][NextNames]_vars


\* ------------------------------------------------------------------------
\* Functions that take no Disk
\* ------------------------------------------------------------------------
\* the call of fn with input x, not yet made
Calls(fn, inputs) ==
    /\ disk = make_new_filesystem
    /\ alive = TRUE
    /\ last = [op |-> "make_new_filesystem", err |-> "Ok", tag |-> 0, inode |-> 0,
               bytes |-> <<>>, clean |-> TRUE]
    /\ track = NoTrack
    /\ left = 0
    /\ call \in {[fn |-> fn, in |-> x, out |-> <<>>, done |-> FALSE] : x \in inputs}

\* the call returns out
Return(out) ==
    /\ call' = [call EXCEPT !.out = out, !.done = TRUE]
    /\ UNCHANGED <<disk, alive, last, track, left>>

\* DEFAULT_BLOCK_SIZE, BYTES_PER_INODE, INode::size(), TagBlock::size()
DEFAULT_BLOCK_SIZE == 4096
BYTES_PER_INODE == 2048
INode_size == 256
TagBlock_size == 256

\* SuperBlock::new(block_size, disk_size) in u64: ok is FALSE when the
\* subtraction that yields block_count goes below zero
SuperBlock_new(block_size, disk_size) ==
    LET total_block_count == disk_size \div block_size
        total_inodes == (total_block_count * block_size) \div BYTES_PER_INODE
        inodes0 == (total_inodes \div 4) * 3
        tags0 == total_inodes \div 4
        inodes == inodes0 + (block_size - ((inodes0 * INode_size) % block_size)) \div INode_size
        tags == tags0 + (block_size - ((tags0 * TagBlock_size) % block_size)) \div TagBlock_size
        data_blocks == total_block_count
                                   - ((inodes * INode_size) \div block_size)
                                   - ((tags * TagBlock_size) \div block_size)
    IN [ok |-> data_blocks >= 0,
        block_size |-> block_size, block_count |-> data_blocks,
        inode_count |-> inodes, tag_count |-> tags]

\* rounded_to_alignment!(n, block_size): the blocks that hold n bits
rounded_to_alignment(n, block_size) ==
    IF n % (block_size * 8) # 0 THEN n \div (block_size * 8) + 1
    ELSE n \div (block_size * 8)

\* the addresses make_new_filesystem_with_root computes for a store of
\* disk_size bytes
mkfs_layout(disk_size) ==
    LET block_size == DEFAULT_BLOCK_SIZE
        super_block == SuperBlock_new(block_size, disk_size)
        blocks_for_tag_map ==
            rounded_to_alignment(BitMap_len(BitMap_new(super_block.tag_count)), block_size)
        blocks_for_inode_map ==
            rounded_to_alignment(BitMap_len(BitMap_new(super_block.inode_count)), block_size)
        blocks_for_block_map ==
            rounded_to_alignment(BitMap_len(BitMap_new(super_block.block_count)), block_size)
        tag_start_address == block_size + (blocks_for_tag_map + blocks_for_inode_map
                                              + blocks_for_block_map) * block_size
        inode_start_address ==
            tag_start_address
              + block_size * ((super_block.tag_count * TagBlock_size) \div block_size)
        data_start_address ==
            inode_start_address
              + block_size * ((super_block.inode_count * INode_size) \div block_size)
    IN IF ~super_block.ok
       THEN [err |-> "Panic", disk_size |-> disk_size, block_size |-> block_size,
             block_count |-> 0, tag_start_address |-> 0, inode_start_address |-> 0,
             data_start_address |-> 0]
       ELSE [err |-> "Ok", disk_size |-> disk_size, block_size |-> block_size,
             block_count |-> super_block.block_count,
             tag_start_address |-> tag_start_address,
             inode_start_address |-> inode_start_address,
             data_start_address |-> data_start_address]

\* store sizes: the multiples of StoreUnit bytes up to MaxStoreUnits of them
StoreUnit == 2048
MaxStoreUnits == 64
StoreSizes == {k * StoreUnit : k \in 1..MaxStoreUnits}

MakeNewFilesystem ==
    /\ call.fn = "make_new_filesystem" /\ ~call.done
    /\ Return(mkfs_layout(call.in))

NextLayout == MakeNewFilesystem

InitLayout == Calls("make_new_filesystem", StoreSizes)

SpecLayout == InitLayout /\ [][NextLayout]_vars


\* bitmaps of up to MaxWords words whose set bits are among the first two and
\* the last bit of each word, and the indices at and around the word ends
MaxWords == 2
SampleBits == {w * WordBits + o : w \in 0..(MaxWords - 1), o \in {0, 1, WordBits - 1}}
BitMaps ==
    {[words |-> w, bits |-> b] :
        w \in 1..MaxWords, b \in SUBSET {i \in SampleBits : i < WordBits}}
    \cup {[words |-> MaxWords, bits |-> b] : b \in SUBSET SampleBits}
BitIndices == SampleBits \cup {w * WordBits : w \in 1..MaxWords} \cup {3, MaxWords * WordBits + 1}

\* BitMap::set_bit(index, value) on a bitmap
SetBit ==
    /\ call.fn = "set_bit" /\ ~call.done
    /\ Return(set_bit(call.in.bm, call.in.index, call.in.value))

\* BitMap::count_zeros_up_to(index) on a bitmap
CountZerosUpTo ==
    /\ call.fn = "count_zeros_up_to" /\ ~call.done
    /\ Return(count_zeros_up_to(call.in.bm, call.in.index))

NextBitMap == SetBit \/ CountZerosUpTo

InitBitMap ==
    \/ Calls("set_bit", {[bm |-> bm, index |-> i, value |-> v] :
                            bm \in BitMaps, i \in BitIndices, v \in BOOLEAN})
    \/ Calls("count_zeros_up_to", {[bm |-> bm, index |-> i] :
                                      bm \in BitMaps, i \in BitIndices})

SpecBitMap == InitBitMap /\ [][NextBitMap]_vars


\* names given to the constructors: empty, one and two letters, a letter
\* above U+00FF, a Latin-1 letter, and a name that fills the field
CodecNames(width) ==
    {<<>>, <<102>>, <<102, 111>>, <<322>>, <<233>>, [k \in 1..width |-> 97]}

\* tag blocks built by TagBlock::new, and by set_index or append_member after it
CodecTagBlocks ==
    LET built == {TagBlock_new(i, name, TagFlagsRW, CurrentTime, ind, n,
                               [k \in 1..MAXIMUM_LOCAL_MEMBERS |-> IF k <= n THEN k ELSE 0]) :
                     i \in TagIndices, name \in CodecNames(MAX_NAME_LENGTH),
                     ind \in {0, DataStartAddress}, n \in 0..MAXIMUM_LOCAL_MEMBERS}
    IN built
       \cup {TagBlock_set_index(t, i) : t \in built, i \in TagIndices}
       \cup {TagBlock_append_member(t, 3) : t \in built}

\* inodes built by INode::new, and by increase_file_size or append_extent
\* after it
CodecINodes ==
    LET built == {INode_new(i, name, size, FileFlags, CurrentTime, 0, n,
                            [k \in 1..INODE_EXTENT_COUNT |->
                                IF k <= n THEN Extent(k, k) ELSE Extent_zeroed]) :
                     i \in InodeIndices, name \in CodecNames(MAX_INODE_NAME_LENGTH),
                     size \in {0, BlockSize}, n \in 0..1}
    IN built
       \cup {INode_increase_file_size(n, 1) : n \in built}
       \cup {INode_append_extent(n, Extent(2, 2)).n : n \in built}

\* TagBlock::from_bytes(TagBlock::to_bytes(B))
TagBlockRoundTrip ==
    /\ call.fn = "TagBlock" /\ ~call.done
    /\ Return(TagBlock_from_bytes(TagBlock_to_bytes(call.in)))

\* INode::from_bytes(INode::to_bytes(B))
INodeRoundTrip ==
    /\ call.fn = "INode" /\ ~call.done
    /\ Return(INode_from_bytes(INode_to_bytes(call.in)))

NextCodec == TagBlockRoundTrip \/ INodeRoundTrip

InitCodec == Calls("TagBlock", CodecTagBlocks) \/ Calls("INode", CodecINodes)

SpecCodec == InitCodec /\ [][NextCodec]_vars


\* the Disk whose data bitmap has exactly the bits b set
WithDataBits(b) == [make_new_filesystem EXCEPT !.block_bitmap.bits = b]

\* Disk::find_blocks(min_size) on a data bitmap
FindBlocks ==
    /\ call.fn = "find_blocks" /\ ~call.done
    /\ Return(find_blocks(WithDataBits(call.in.bits), call.in.min_size))

NextAlloc == FindBlocks

InitAlloc ==
    Calls("find_blocks", {[bits |-> b, min_size |-> n] :
                             b \in SUBSET (0..(BlockCount - 1)),
                             n \in 0..(BlockCount * BlockSize)})

SpecAlloc == InitAlloc /\ [][NextAlloc]_vars


\* ------------------------------------------------------------------------
\* create_new_file from the extents on: the code after the data blocks are
\* written takes the extent list as it is and never reads the blocks it
\* names, so the lists are drawn directly; single-block extents <<b, b>> in
\* ascending order, numbered as the blocks of a store with more than
\* BlockCount data blocks, because a list of seven extents needs seven data
\* blocks and the indirect inodes need two more
\* ------------------------------------------------------------------------
\* the longest extent list
MaxExtents == 8
\* the largest block number in an extent list
MaxExtentLabel == 8

\* the elements of a set of numbers in ascending order
RECURSIVE Ascending(_)
Ascending(S) ==
    IF S = {} THEN <<>>
    ELSE LET m == CHOOSE x \in S : \A y \in S : x <= y
         IN <<m>> \o Ascending(S \ {m})

ExtentLists ==
    {[k \in 1..Len(Ascending(S)) |-> <<Ascending(S)[k], Ascending(S)[k]>>] :
        S \in {T \in SUBSET (0..MaxExtentLabel) :
                  Cardinality(T) \in (INODE_EXTENT_COUNT + 1)..MaxExtents}}

\* create_new_file on a fresh store from the point where the allocator has
\* returned call.in and the data blocks are written: the inode it caches and
\* the chain behind its indirect pointer
CreateExtents ==
    /\ call.fn = "create_extents" /\ ~call.done
    /\ LET r == create_extents(0, FileName, FileFlags, <<>>, call.in,
                               Ret(make_new_filesystem, "Ok"))
       IN Return([err |-> r.err,
                  inode |-> IF r.err = "Ok" THEN r.s.inodes[Len(r.s.inodes)] ELSE <<>>,
                  chain |-> IF r.err = "Ok"
                            THEN inode_chain(r.s.h,
                                     INode_indirect_pointer(r.s.inodes[Len(r.s.inodes)]),
                                     Fuel)
                            ELSE <<>>])

NextExtents == CreateExtents

InitExtents == Calls("create_extents", ExtentLists)

SpecExtents == InitExtents /\ [][NextExtents]_vars


\* ------------------------------------------------------------------------
\* disk_info on stores of other sizes: a Disk that make_new_filesystem built
\* with n tag slots, n inode slots and n data blocks, of which the lowest u
\* of each are in use
\* ------------------------------------------------------------------------
\* the largest table size: one more than the first multiple of 64 bits
MaxSlots == 65
\* the most slots in use
MaxUsed == 3

\* Disk::disk_info (DiskInfo::from_disk) of a Disk whose super block has
\* these counts
disk_info(s, tag_count, inode_count, block_count) ==
    LET free_tag_slots == count_zeros_up_to(s.tag_bitmap, tag_count)
        free_file_slots == count_zeros_up_to(s.inode_bitmap, inode_count)
        free_block_count == count_zeros_up_to(s.block_bitmap, block_count)
    IN [number_of_tags |-> Len(s.tags),
        free_tag_slots |-> IF free_tag_slots.some THEN free_tag_slots.v ELSE 0,
        number_of_files |-> Len(s.inodes),
        free_file_slots |-> IF free_file_slots.some THEN free_file_slots.v ELSE 0,
        block_size |-> BlockSize,
        free_block_count |-> IF free_block_count.some THEN free_block_count.v ELSE 0,
        free_block_space |-> (IF free_block_count.some THEN free_block_count.v ELSE 0)
                             * BlockSize]

\* the Disk with tables of n slots and the lowest u slots of each in use
SizedDisk(n, u) ==
    [make_new_filesystem EXCEPT
        !.tag_bitmap = [BitMap_new(n) EXCEPT !.bits = 0..(u - 1)],
        !.inode_bitmap = [BitMap_new(n) EXCEPT !.bits = 0..(u - 1)],
        !.block_bitmap = [BitMap_new(n) EXCEPT !.bits = 0..(u - 1)],
        !.tags = [k \in 1..u |-> [make_new_filesystem.tags[1] EXCEPT !.index = k - 1]],
        !.inodes = [k \in 1..u |-> k - 1]]

DiskInfo ==
    /\ call.fn = "disk_info" /\ ~call.done
    /\ Return(disk_info(SizedDisk(call.in.n, call.in.u), call.in.n, call.in.n, call.in.n))

NextInfo == DiskInfo

InitInfo ==
    Calls("disk_info", {[n |-> n, u |-> u] : n \in 1..MaxSlots, u \in 1..MaxUsed})
    /\ call.in.u <= call.in.n

SpecInfo == InitInfo /\ [][NextInfo]_vars


\* ------------------------------------------------------------------------
\* apply_tag and remove_tag_from_inode on a store that already holds files
\* and members of the root tag, so that chains of full blocks are in reach
\* ------------------------------------------------------------------------
MaxApplySteps == 4

\* the Disk after n calls of create_new_file with contents of this size
RECURSIVE CreatedFiles(_, _)
CreatedFiles(n, size) ==
    IF n = 0 THEN make_new_filesystem
    ELSE create_new_file(CreatedFiles(n - 1, size), FileName, FileFlags,
                         FileContents(size)).s

\* the Disk s after apply_tag(0, i) for the inodes i below j, lowest first
RECURSIVE TaggedFiles(_, _)
TaggedFiles(s, j) ==
    IF j = 0 THEN s ELSE apply_tag(TaggedFiles(s, j - 1), 0, j - 1).s

NextApply ==
    \/ \E t \in TagIndices, i \in InodeIndices : ApplyTag(t, i)
    \/ \E t \in TagIndices, i \in InodeIndices : RemoveTagFromInode(t, i)

InitApply ==
    /\ \E size \in {0, 1}, j \in 0..(InodeCount - 1) :
          disk = TaggedFiles(CreatedFiles(InodeCount, size), j)
    /\ alive = TRUE
    /\ last = [op |-> "apply_tag", err |-> "Ok", tag |-> 0, inode |-> 0,
               bytes |-> <<>>, clean |-> TRUE]
    /\ track = NoTrack
    /\ left = MaxApplySteps
    /\ call = NoCall

SpecApply == InitApply /\ [][NextApply]_vars


\* ------------------------------------------------------------------------
\* files deleted and created again while the root tag has a chain: the store
\* starts with InodeCount empty files that all carry the root tag, so the
\* first block of the chain is full and sits on data block 0
\* ------------------------------------------------------------------------
MaxChainSteps == 5

NextChains ==
    \/ CreateNewFile(FileName, FileContents(0))
    \/ \E i \in InodeIndices : DeleteFile(i)
    \/ \E i \in InodeIndices : ApplyTag(0, i)
    \/ \E i \in InodeIndices : RemoveTagFromInode(0, i)

InitChains ==
    /\ disk = TaggedFiles(CreatedFiles(InodeCount, 0), InodeCount)
    /\ alive = TRUE
    /\ last = [op |-> "apply_tag", err |-> "Ok", tag |-> 0, inode |-> 0,
               bytes |-> <<>>, clean |-> TRUE]
    /\ track = NoTrack
    /\ left = MaxChainSteps
    /\ call = NoCall

SpecChains == InitChains /\ [][NextChains]_vars


\* ------------------------------------------------------------------------
\* Properties
\* ------------------------------------------------------------------------
\* C1: in every state reached by public operations the set bits of the data
\* bitmap below block_count are exactly the data blocks referenced by the
\* extents of live inodes and by the indirect blocks of live inodes and tags
\* (stated for the runs in which every operation returned Ok)
C1_BitmapMatchesReferences ==
    (alive /\ last.clean) =>
        data_bits(disk) = Range(all_extent_blocks(disk)) \cup Range(all_indirect_blocks(disk))

\* a file was created and deleted again, every operation returning Ok
C1_Witness == alive /\ last.clean /\ last.op = "delete_file"

\* C2: in every reachable state no data block lies in more than one extent
\* (two extents of one inode included) and no indirect block lies in an extent
C2_NoSharedBlock ==
    (alive /\ last.clean) =>
        /\ NoDuplicates(all_extent_blocks(disk))
        /\ Range(all_indirect_blocks(disk)) \cap Range(all_extent_blocks(disk)) = {}

\* a file stored in more than one extent exists
C2_Witness ==
    alive /\ last.clean /\ \E k \in 1..Len(disk.inodes) : disk.inodes[k].num_extents >= 2

\* C3: when create_new_file(name, flags, c) returns an inode, read_file of
\* that inode right afterwards returns exactly c
C3_CreateThenRead ==
    [][(last'.op = "create_new_file" /\ last'.err = "Ok")
         => (read_file(disk', last'.inode).err = "Ok"
             /\ read_file(disk', last'.inode).val = last'.bytes)]_vars

\* a file was created whose contents take more than one block
C3_Witness ==
    last.op = "create_new_file" /\ last.err = "Ok" /\ Len(last.bytes) > BlockSize

\* C4: create_new_file, then appends to that file, then delete_file of that
\* file leaves available_data_blocks at its value before the create
C4_DeleteRestoresAvailable ==
    [][(last'.op = "delete_file" /\ last'.err = "Ok" /\ track.some /\ track.i = last'.inode)
         => available_data_blocks(disk') = track.base]_vars

\* the tracked file was deleted
C4_Witness == last.op = "delete_file" /\ last.err = "Ok" /\ last.clean

\* C5: when append_file_bytes(i, b) returns Ok on a file that read as old,
\* read_file(i) returns old followed by b and the size is len(old) + len(b)
C5_AppendThenRead ==
    [][(last'.op = "append_file_bytes" /\ last'.err = "Ok" /\ last.clean
        /\ read_file(disk, last'.inode).err = "Ok")
         => (/\ read_file(disk', last'.inode).err = "Ok"
             /\ read_file(disk', last'.inode).val
                  = read_file(disk, last'.inode).val \o last'.bytes
             /\ disk'.inodes[locate_inode(disk', last'.inode).v].size
                  = Len(read_file(disk, last'.inode).val) + Len(last'.bytes))]_vars

\* an append returned Ok
C5_Witness == last.op = "append_file_bytes" /\ last.err = "Ok" /\ last.clean

\* C6: after operations that all returned Ok, dropping the Disk and opening
\* the store again succeeds and gives the same tags, inodes, bitmaps and
\* read_file results
C6_ReopenSame ==
    [][(last'.op = "open_disk" /\ alive /\ last.clean)
         => (/\ alive'
             /\ Range(disk'.tags) = Range(disk.tags)
             /\ Range(disk'.inodes) = Range(disk.inodes)
             /\ \A i \in TagIndices :
                   (i \in disk'.tag_bitmap.bits) = (i \in disk.tag_bitmap.bits)
             /\ \A i \in InodeIndices :
                   (i \in disk'.inode_bitmap.bits) = (i \in disk.inode_bitmap.bits)
             /\ data_bits(disk') = data_bits(disk)
             /\ \A i \in InodeIndices : read_file(disk', i) = read_file(disk, i))]_vars

\* the store was opened again after successful operations
C6_Witness ==
    /\ last.op = "open_disk" /\ last.clean /\ alive
    /\ \E k \in 1..Len(disk.inodes) : disk.inodes[k].size > BlockSize

\* C7: in every reachable state no tag contains the same inode index twice,
\* its local members and the members of its indirect chain taken together
C7_NoDuplicateMember ==
    alive => \A k \in 1..Len(disk.tags) : NoDuplicates(tag_members(disk, disk.tags[k]))

\* a tag has members in its tag block and in an indirect block
C7_Witness ==
    alive /\ \E k \in 1..Len(disk.tags) :
                /\ disk.tags[k].number_of_pointers > 0
                /\ tag_indirect_blocks(disk, disk.tags[k]) # <<>>

\* C8: apply_tag(t, i) on a tag whose members already contain the live inode
\* i returns TagAlreadyAppliedToINode and changes neither the members of the
\* tag nor its chain nor the data bitmap
C8_ApplyTwiceRejected ==
    [][(/\ last'.op = "apply_tag"
        /\ locate_tag(disk, last'.tag).some
        /\ locate_inode(disk, last'.inode).some
        /\ last'.inode \in Range(tag_members(disk, disk.tags[locate_tag(disk, last'.tag).v])))
         => (/\ last'.err = "TagAlreadyAppliedToINode"
             /\ disk'.tags = disk.tags
             /\ disk'.h.data = disk.h.data
             /\ disk'.block_bitmap = disk.block_bitmap)]_vars

\* apply_tag was refused for a member
C8_Witness == last.op = "apply_tag" /\ last.err = "TagAlreadyAppliedToINode"

\* C9: after apply_tag(t, i) returns Ok, list_nodes_with_tag(t) contains i;
\* after remove_tag_from_inode(t, i) returns Ok, it does not contain i
C9_ApplyListsRemoveUnlists ==
    [][/\ (last'.op = "apply_tag" /\ last'.err = "Ok")
            => last'.inode \in listed(disk', last'.tag)
       /\ (last'.op = "remove_tag_from_inode" /\ last'.err = "Ok")
            => last'.inode \notin listed(disk', last'.tag)]_vars

\* a member was removed from an indirect block
C9_Witness ==
    last.op = "remove_tag_from_inode" /\ last.err = "Ok" /\ last.inode = 0

\* C10: after delete_file(i) returns Ok no live tag has i among its members
C10_DeleteUntags ==
    [][(last'.op = "delete_file" /\ last'.err = "Ok")
         => \A k \in 1..Len(disk'.tags) :
               last'.inode \notin Range(tag_members(disk', disk'.tags[k]))]_vars

\* a tagged file was deleted
C10_Witness ==
    /\ last.op = "delete_file" /\ last.err = "Ok"
    /\ \E k \in 1..Len(disk.tags) : disk.tags[k].number_of_pointers > 0

\* C11: in every state reached by successful operations, every live inode
\* has at least as many bytes in the blocks of its extents (inline and in
\* its indirect chain) as its size: file_size reports physical_size >=
\* actual_size
C11_PhysicalCoversSize ==
    (alive /\ last.clean) =>
        \A k \in 1..Len(disk.inodes) :
            LET fs == file_size(disk, disk.inodes[k].index)
            IN /\ fs.err = "Ok"
               /\ fs.physical_size >= fs.actual_size
               /\ Len(extent_blocks(inode_extents(disk, disk.inodes[k]))) * BlockSize
                      >= disk.inodes[k].size

\* an append returned Ok on a file whose size was a multiple of the block size
C11_Witness ==
    /\ alive /\ last.clean /\ last.op = "append_file_bytes"
    /\ locate_inode(disk, last.inode).some
    /\ disk.inodes[locate_inode(disk, last.inode).v].size > Len(last.bytes)
    /\ (disk.inodes[locate_inode(disk, last.inode).v].size - Len(last.bytes)) % BlockSize = 0

\* C12: in every state reached by successful operations, for every live
\* inode i and every n, read_file_bytes(i, n) returns Ok with the first k
\* bytes of read_file(i), k = size when n = 0 or n > size, k = n otherwise
C12_ReadPrefix ==
    (alive /\ last.clean) =>
        \A j \in 1..Len(disk.inodes), n \in 0..(MaxLen + 1) :
            LET i == disk.inodes[j].index
                size == disk.inodes[j].size
                k == IF n = 0 \/ n > size THEN size ELSE n
                r == read_file_bytes(disk, i, n)
            IN /\ r.err = "Ok"
               /\ read_file(disk, i).err = "Ok"
               /\ Len(read_file(disk, i).val) >= k
               /\ r.val = SubSeq(read_file(disk, i).val, 1, k)

\* a live file of more than one block exists after successful operations
C12_Witness ==
    /\ alive /\ last.clean
    /\ \E j \in 1..Len(disk.inodes) : disk.inodes[j].size > BlockSize + 1

\* C13: every TagBlock, INode, IndirectINode and IndirectTagBlock that an
\* operation has written to the store has an 8-bit wrapping byte sum of 0,
\* the TagBlock that create_new_tag writes into a slot other than 0 included
C13_WrittenChecksums ==
    /\ \A i \in TagIndices : TagBytes_sum(disk.h.tag_region[i]) % 256 = 0
    /\ \A i \in InodeIndices : INodeBytes_sum(disk.h.inode_region[i]) % 256 = 0
    /\ \A b \in 0..(BlockCount - 1) :
          /\ disk.h.data[b].k = "itag" => IndirectTagBytes_sum(disk.h.data[b]) % 256 = 0
          /\ disk.h.data[b].k = "iinode" => IndirectINodeBytes_sum(disk.h.data[b]) % 256 = 0

\* create_new_tag returned Ok and wrote its tag into slot 1
C13_Witness ==
    /\ last.op = "create_new_tag" /\ last.err = "Ok"
    /\ disk.h.tag_region[1].index = 1
    /\ disk.h.tag_region[1].name = TagName

\* the data blocks that contents of n bytes need
BlocksNeeded(n) == IF n % BlockSize # 0 THEN 1 + n \div BlockSize ELSE n \div BlockSize

\* C14: after successful create_new_file, append_file_bytes and delete_file
\* operations, create_new_file with a free inode slot returns Ok whenever
\* the free data blocks are at least the blocks its contents need (contents
\* of at most five blocks need no indirect block), however they are scattered
C14_CreateFindsBlocks ==
    [][(/\ last'.op = "create_new_file"
        /\ alive /\ last.clean
        /\ find_next_0_index_up_to(disk.inode_bitmap, InodeCount).some
        /\ BlocksNeeded(Len(last'.bytes)) <= INODE_EXTENT_COUNT
        /\ available_data_blocks(disk) >= BlocksNeeded(Len(last'.bytes)))
       => last'.err = "Ok"]_vars

\* a file was created after a delete had left a hole in the data bitmap
C14_Witness ==
    /\ last.op = "create_new_file" /\ last.err = "Ok" /\ last.clean
    /\ Len(last.bytes) > BlockSize
    /\ \E a, b \in 0..(BlockCount - 1) :
          a < b /\ a \notin disk.block_bitmap.bits /\ b \in disk.block_bitmap.bits

\* C15: list_nodes_with_tag(t) returns the inodes of t's members in
\* membership order: the local members in slot order, then the members of
\* each indirect block in chain order, members with no live inode skipped
C15_ListInMembershipOrder ==
    alive =>
        \A k \in 1..Len(disk.tags) :
            LET r == list_nodes_with_tag(disk, disk.tags[k].index)
                live(m) == locate_inode(disk, m).some
            IN /\ r.err = "Ok"
               /\ [j \in 1..Len(r.val) |-> r.val[j].index]
                      = SelectSeq(tag_members(disk, disk.tags[k]), live)

\* a tag has at least two members and apply_tag has just returned Ok
C15_Witness ==
    /\ alive /\ last.op = "apply_tag" /\ last.err = "Ok"
    /\ \E k \in 1..Len(disk.tags) : Len(tag_members(disk, disk.tags[k])) >= 2

\* the indices of the live tags, and the non-empty lists of distinct live
\* tag indices
LiveTags == {disk.tags[k].index : k \in 1..Len(disk.tags)}

TagLists ==
    {ts \in UNION {[1..n -> LiveTags] : n \in 1..Cardinality(LiveTags)} : NoDuplicates(ts)}

C17_DeleteTagFreesChain ==
    [][(/\ last'.op = "delete_tag"
        /\ alive /\ last.clean
        /\ locate_tag(disk, last'.tag).some)
       => (/\ last'.err = "Ok"
           /\ last'.tag \notin disk'.tag_bitmap.bits
           /\ \A b \in Range(tag_indirect_blocks(disk,
                                 disk.tags[locate_tag(disk, last'.tag).v])) :
                 b \notin disk'.block_bitmap.bits
           /\ ~locate_tag(disk', last'.tag).some
           /\ disk'.inodes = disk.inodes
           /\ \A i \in InodeIndices : read_file(disk', i) = read_file(disk, i))]_vars

\* delete_tag returned Ok on a tag that had an indirect block
C17_Witness ==
    /\ last.op = "delete_tag" /\ last.err = "Ok" /\ last.clean
    /\ Cardinality(disk.block_bitmap.bits) < Cardinality({b \in 0..(BlockCount - 1) :
                                                 disk.h.data[b].k # "raw"})
          + Cardinality(Range(all_extent_blocks(disk)))

\* the position in the chain of tag t of the first indirect block that holds
\* member m, 0 when m is a local member or in no block
holding_block(s, t, m) ==
    LET ch == tag_chain(s.h, TagBlock_indirect_pointer(t), Fuel)
        hits == {k \in 1..Len(ch) : position(ch[k].block.members, m).some}
    IN IF position(t.members, m).some \/ hits = {} THEN 0
       ELSE CHOOSE k \in hits : \A j \in hits : k <= j

\* the indices list_nodes_with_tag returns, in order
listed_order(s, tag_index) ==
    LET r == list_nodes_with_tag(s, tag_index)
    IN [k \in 1..Len(r.val) |-> r.val[k].index]

\* C18: after successful operations, remove_tag_from_inode(t, i) that removes
\* the only member of an indirect block of t's chain returns Ok, unlinks
\* that block from the chain (the other blocks stay, in order), clears its
\* data bit so that available_data_blocks grows by exactly one, and
\* list_nodes_with_tag(t) returns the other members in the same relative
\* order
C18_PruneUnlinks ==
    [][(/\ last'.op = "remove_tag_from_inode"
        /\ alive /\ last.clean
        /\ locate_tag(disk, last'.tag).some
        /\ locate_inode(disk, last'.inode).some
        /\ LET t == disk.tags[locate_tag(disk, last'.tag).v]
               k == holding_block(disk, t, last'.inode)
           IN /\ k # 0
              /\ tag_chain(disk.h, TagBlock_indirect_pointer(t), Fuel)[k]
                     .block.number_of_members = 1)
       => LET t == disk.tags[locate_tag(disk, last'.tag).v]
              k == holding_block(disk, t, last'.inode)
              before == tag_indirect_blocks(disk, t)
          IN /\ last'.err = "Ok"
             /\ locate_tag(disk', last'.tag).some
             /\ tag_indirect_blocks(disk', disk'.tags[locate_tag(disk', last'.tag).v])
                   = SubSeq(before, 1, k - 1) \o SubSeq(before, k + 1, Len(before))
             /\ before[k] \notin disk'.block_bitmap.bits
             /\ available_data_blocks(disk') = available_data_blocks(disk) + 1
             /\ listed_order(disk', last'.tag)
                   = SelectSeq(listed_order(disk, last'.tag),
                               LAMBDA x : x # last'.inode)]_vars

\* remove_tag_from_inode returned Ok after pruning an indirect block of a tag
\* that still has members
C18_Witness ==
    /\ last.op = "remove_tag_from_inode" /\ last.err = "Ok" /\ last.clean
    /\ locate_tag(disk, last.tag).some
    /\ disk.tags[locate_tag(disk, last.tag).v].number_of_pointers = MAXIMUM_LOCAL_MEMBERS
    /\ disk.tags[locate_tag(disk, last.tag).v].indirect = 0
    /\ \E b \in 0..(BlockCount - 1) :
          /\ disk.h.data[b].k = "itag"
          /\ b \notin disk.block_bitmap.bits

\* the data block indices that the stored tags, inodes and indirect blocks
\* refer to: what a re-open of the store h loads from the slots marked in
\* the stored tag and inode bitmaps, and the chains behind them
stored_references(h) ==
    LET o == open_disk(h)
    IN Range(all_extent_blocks(o.s)) \cup Range(all_indirect_blocks(o.s))

\* C19: once an operation has returned (every one of its backend writes
\* done, the last prefix an interruption can follow), the store holds no
\* dangling pointer: every extent, indirect pointer and next pointer reachable
\* from a slot marked in the stored tag or inode bitmap refers only to data
\* blocks marked in the stored data bitmap
C19_NoDanglingOnDisk ==
    (alive /\ last.op # "make_new_filesystem" /\ open_disk(disk.h).err = "Ok")
        => \A b \in stored_references(disk.h) :
              b \in BitMap_from_bytes(disk.h.block_map).bits

\* an operation returned Ok and the stored inodes refer to data blocks
C19_Witness ==
    /\ alive /\ last.err = "Ok" /\ last.clean
    /\ last.op \in {"append_file_bytes", "create_new_file", "delete_file"}
    /\ open_disk(disk.h).err = "Ok"
    /\ stored_references(disk.h) # {}
    /\ \A b \in stored_references(disk.h) :
              b \in BitMap_from_bytes(disk.h.block_map).bits

\* C20: create_new_tag called when every one of the tag_count tag slots is
\* occupied returns NoFreeTag and changes neither the bitmaps, the tags nor
\* the store
C20_NoFreeTag ==
    [][(/\ last'.op = "create_new_tag"
        /\ alive
        /\ \A i \in 0..(TagCount - 1) : i \in disk.tag_bitmap.bits)
       => (/\ last'.err = "NoFreeTag"
           /\ disk' = disk)]_vars

\* create_new_tag returned an error, changing nothing, with every tag slot
\* occupied
C20_Witness ==
    /\ last.op = "create_new_tag" /\ last.err # "Ok" /\ alive
    /\ \A i \in 0..(TagCount - 1) : i \in disk.tag_bitmap.bits
    /\ Len(disk.tags) = TagCount
    /\ disk.h.tag_map = BitMap_as_bytes(disk.tag_bitmap)

\* C21: after successful operations, remove_tag_from_inode(t, i) for a live
\* tag t and a live inode i that is not a member of t (index 0 and tags with
\* unused local slots included) returns TagNotAppliedToINode and leaves the
\* tags, the stored tag blocks, the indirect blocks and the bitmaps unchanged
C21_NotAppliedRejected ==
    [][(/\ last'.op = "remove_tag_from_inode"
        /\ alive /\ last.clean
        /\ locate_tag(disk, last'.tag).some
        /\ locate_inode(disk, last'.inode).some
        /\ last'.inode \notin
              Range(tag_members(disk, disk.tags[locate_tag(disk, last'.tag).v])))
       => (/\ last'.err = "TagNotAppliedToINode"
           /\ disk'.tags = disk.tags
           /\ disk'.h.tag_region = disk.h.tag_region
           /\ disk'.h.data = disk.h.data
           /\ disk'.tag_bitmap = disk.tag_bitmap
           /\ disk'.inode_bitmap = disk.inode_bitmap
           /\ disk'.block_bitmap = disk.block_bitmap
           /\ disk'.h.tag_map = disk.h.tag_map
           /\ disk'.h.inode_map = disk.h.inode_map
           /\ disk'.h.block_map = disk.h.block_map)]_vars

\* remove_tag_from_inode returned TagNotAppliedToINode for a live inode and a
\* live tag that has members
C21_Witness ==
    /\ last.op = "remove_tag_from_inode" /\ last.err = "TagNotAppliedToINode" /\ alive
    /\ locate_tag(disk, last.tag).some
    /\ locate_inode(disk, last.inode).some
    /\ tag_members(disk, disk.tags[locate_tag(disk, last.tag).v]) # <<>>

\* C22: in every state, create_new_file with a name that contains a
\* forbidden character returns InvalidFileName and create_new_tag returns
\* InvalidTagName, whatever the contents and the occupancy of the tables,
\* and the Disk they leave (bitmaps, tags, inodes, store) is the Disk they
\* were given
C22_BadNameRejected ==
    alive =>
        \A name \in BadNames :
            /\ \A n \in 0..(2 * BlockSize) :
                  LET r == create_new_file(disk, name, FileFlags, FileContents(n))
                  IN r.err = "InvalidFileName" /\ r.s = disk
            /\ create_new_tag(disk, name, TagFlagsRW) = Ret(disk, "InvalidTagName")

\* create_new_file rejected a name while the inode table was full
C22_Witness ==
    /\ alive
    /\ last.op = "create_new_file" /\ last.err = "InvalidFileName"
    /\ Len(disk.inodes) = InodeCount
    /\ ~find_next_0_index_up_to(disk.inode_bitmap, InodeCount).some

\* C23: in every state reached by operations that returned, every live inode
\* has num_extents <= 5, so that the five inline slots are never indexed out
\* of range
C23_InlineExtentsBounded ==
    alive => \A k \in 1..Len(disk.inodes) : disk.inodes[k].num_extents <= INODE_EXTENT_COUNT

\* create_new_file returned Ok and stored the file in more than one extent
C23_Witness ==
    /\ alive /\ last.op = "create_new_file" /\ last.err = "Ok"
    /\ locate_inode(disk, last.inode).some
    /\ disk.inodes[locate_inode(disk, last.inode).v].num_extents \in 2..INODE_EXTENT_COUNT

\* C24: for every store size for which make_new_filesystem computes a
\* layout whose tables lie inside the store, the data region fits too:
\* data_start_address + block_count * block_size <= store size
C24_LayoutFits ==
    (call.fn = "make_new_filesystem" /\ call.done /\ call.out.err = "Ok"
       /\ call.out.data_start_address <= call.out.disk_size)
        => call.out.data_start_address + call.out.block_count * call.out.block_size
              <= call.out.disk_size

\* make_new_filesystem computed a layout with data blocks whose tables lie
\* inside the store
C24_Witness ==
    /\ call.fn = "make_new_filesystem" /\ call.done /\ call.out.err = "Ok"
    /\ call.out.data_start_address <= call.out.disk_size
    /\ call.out.block_count > 0

\* C25: for every live inode approximate_file_size returns Ok with the
\* smallest multiple of block_size that is at least the inode's size (the
\* size itself when it is a multiple of block_size, 0 for an empty file)
C25_ApproximateRoundsUp ==
    (alive /\ last.clean) =>
        \A k \in 1..Len(disk.inodes) :
            LET r == approximate_file_size(disk, disk.inodes[k].index)
                size == disk.inodes[k].size
            IN /\ r.err = "Ok"
               /\ r.val % BlockSize = 0
               /\ r.val >= size
               /\ r.val - BlockSize < size

\* a live file whose size is not a multiple of block_size, for which
\* approximate_file_size returns the size rounded up
C25_Witness ==
    /\ alive /\ last.clean
    /\ \E k \in 1..Len(disk.inodes) :
          /\ disk.inodes[k].size % BlockSize # 0
          /\ approximate_file_size(disk, disk.inodes[k].index).val
                = (disk.inodes[k].size \div BlockSize + 1) * BlockSize

\* C26: for every bitmap, set_bit(i, v) with i in range returns true and
\* leaves bit i equal to v and every other bit as it was, whatever bit i was
\* before; with i out of range it returns false and changes nothing
C26_SetBitSets ==
    (call.fn = "set_bit" /\ call.done) =>
        LET bm == call.in.bm
            i == call.in.index
        IN IF i < BitMap_len(bm)
           THEN /\ call.out.ok
                /\ bit_at(call.out.bm, i) = Some(call.in.value)
                /\ call.out.bm.words = bm.words
                /\ call.out.bm.bits \ {i} = bm.bits \ {i}
           ELSE /\ ~call.out.ok
                /\ call.out.bm = bm

\* set_bit(i, false) returned true on a bit that was set, and cleared it
C26_Witness ==
    /\ call.fn = "set_bit" /\ call.done /\ call.out.ok
    /\ ~call.in.value
    /\ call.in.index \in call.in.bm.bits
    /\ call.in.index \notin call.out.bm.bits

\* C27: for every bitmap of length L and every i with 0 <= i <= L,
\* count_zeros_up_to(i) returns the number of clear bits at the indices
\* strictly below i (i of 64 or more that is no multiple of 64, and i = L,
\* included)
C27_CountZerosBelow ==
    (call.fn = "count_zeros_up_to" /\ call.done
       /\ call.in.index <= BitMap_len(call.in.bm))
        => call.out = Some(Cardinality({k \in 0..(call.in.index - 1) :
                                            k \notin call.in.bm.bits}))

\* count_zeros_up_to returned the number of clear bits below an index that
\* is not the start of a word, on a bitmap that has set bits below it
C27_Witness ==
    /\ call.fn = "count_zeros_up_to" /\ call.done
    /\ call.in.index % WordBits # 0
    /\ \E k \in call.in.bm.bits : k < call.in.index
    /\ call.out = Some(Cardinality({k \in 0..(call.in.index - 1) :
                                        k \notin call.in.bm.bits}))

\* C28: for every TagBlock and INode B built by the constructor and the
\* setters, from_bytes(to_bytes(B)) returns Some value equal to B
C28_RoundTrip ==
    (call.fn \in {"TagBlock", "INode"} /\ call.done) => call.out = Some(call.in)

\* the round trip returned the block for a tag block that append_member
\* changed and whose name fills the field
C28_Witness ==
    /\ call.fn = "TagBlock" /\ call.done
    /\ call.out = Some(call.in)
    /\ Len(call.in.name) = MAX_NAME_LENGTH
    /\ call.in.number_of_pointers > 0
    /\ call.in.members[call.in.number_of_pointers] = 3

\* C29: in every state reached from make_new_filesystem through the
\* operations, list_tags (the tags of the Disk) contains the root tag, index
\* 0 and name root, and bit 0 of the tag bitmap is set
C29_RootTagExists ==
    alive =>
        /\ \E k \in 1..Len(disk.tags) :
              disk.tags[k].index = 0 /\ disk.tags[k].name = RootName
        /\ bit_at(disk.tag_bitmap, 0) = Some(TRUE)

\* delete_tag returned Ok and the root tag is still listed
C29_Witness ==
    /\ alive /\ last.op = "delete_tag" /\ last.err = "Ok"
    /\ \E k \in 1..Len(disk.tags) :
          disk.tags[k].index = 0 /\ disk.tags[k].name = RootName
    /\ bit_at(disk.tag_bitmap, 0) = Some(TRUE)

\* the blocks of the extents find_blocks returned, with repetitions
found_blocks(extents) ==
    Concat([k \in 1..Len(extents) |->
               [j \in 1..(extents[k][2] - extents[k][1] + 1) |-> extents[k][1] + j - 1]])

\* C30: whenever find_blocks returns Some(extents), every extent has
\* start <= end < block_count, every block of every extent is clear in the
\* bitmap, no block occurs twice, and the number of blocks is
\* ceil(min_bytes / block_size)
C30_FoundBlocksAreFree ==
    (call.fn = "find_blocks" /\ call.done /\ call.out.err = "Ok" /\ call.out.val.some)
        => LET extents == call.out.val.v
               blocks == found_blocks(extents)
           IN /\ \A k \in 1..Len(extents) :
                     extents[k][1] <= extents[k][2] /\ extents[k][2] < BlockCount
              /\ \A k \in 1..Len(blocks) : blocks[k] \notin call.in.bits
              /\ NoDuplicates(blocks)
              /\ Len(blocks) = BlocksNeeded(call.in.min_size)

\* find_blocks returned free, distinct blocks of the needed number on a
\* bitmap that has set bits before them
C30_Witness ==
    /\ call.fn = "find_blocks" /\ call.done /\ call.out.err = "Ok" /\ call.out.val.some
    /\ LET blocks == found_blocks(call.out.val.v)
       IN /\ Len(blocks) >= 2
          /\ \A k \in 1..Len(blocks) : blocks[k] \notin call.in.bits
          /\ NoDuplicates(blocks)
          /\ Len(blocks) = BlocksNeeded(call.in.min_size)
          /\ \E b \in call.in.bits : b < blocks[1]

\* the maximal runs of clear bits of the bitmap bits from cursor to
\* block_count, as <<start, end>>
clear_runs(bits, cursor) ==
    {<<a, b>> \in (cursor..(BlockCount - 1)) \X (cursor..(BlockCount - 1)) :
        /\ a <= b
        /\ \A i \in a..b : i \notin bits
        /\ (a = cursor \/ (a - 1) \in bits)
        /\ (b = BlockCount - 1 \/ (b + 1) \in bits)}

\* the longest of them, the one with the lowest start among equals
longest_run(bits, cursor) ==
    CHOOSE r \in clear_runs(bits, cursor) :
        \A q \in clear_runs(bits, cursor) :
            \/ q[2] - q[1] < r[2] - r[1]
            \/ (q[2] - q[1] = r[2] - r[1] /\ r[1] <= q[1])

\* C31: when the first pass of find_blocks, whose cursor is the first clear
\* bit, does not short-circuit (the run it pushes is shorter than the need),
\* the run it pushes is the longest maximal run of clear bits from the
\* cursor to block_count (the run that reaches the end included), the
\* lowest one among the longest
C31_PassTakesLongestRun ==
    (call.fn = "find_blocks" /\ call.done /\ call.out.err = "Ok" /\ call.out.val.some
       /\ Len(call.out.val.v) > 0
       /\ call.out.val.v[1][2] - call.out.val.v[1][1] + 1 < BlocksNeeded(call.in.min_size))
        => call.out.val.v[1]
              = longest_run(call.in.bits,
                            find_next_0_index_up_to(WithDataBits(call.in.bits).block_bitmap,
                                                    BlockCount).v)

\* a pass that did not short-circuit pushed the longest run, on a bitmap
\* with several runs
C31_Witness ==
    /\ call.fn = "find_blocks" /\ call.done /\ call.out.err = "Ok" /\ call.out.val.some
    /\ Len(call.out.val.v) > 1
    /\ call.out.val.v[1][2] - call.out.val.v[1][1] + 1 < BlocksNeeded(call.in.min_size)
    /\ call.out.val.v[1][2] > call.out.val.v[1][1]
    /\ Cardinality(clear_runs(call.in.bits, call.out.val.v[1][1])) > 1
    /\ call.out.val.v[1] = longest_run(call.in.bits, call.out.val.v[1][1])

\* C32: after every successful operation that changes the Disk the three
\* bitmap regions of the store equal the tag, inode and data bitmaps of the
\* Disk
C32_BitmapsFlushed ==
    (alive /\ last.clean
       /\ last.op \in {"create_new_tag", "delete_tag", "apply_tag", "remove_tag_from_inode",
                       "create_new_file", "append_file_bytes", "delete_file"})
        => /\ disk.h.tag_map = BitMap_as_bytes(disk.tag_bitmap)
           /\ disk.h.inode_map = BitMap_as_bytes(disk.inode_bitmap)
           /\ disk.h.block_map = BitMap_as_bytes(disk.block_bitmap)

\* create_new_file returned Ok, it allocated data blocks and the store holds
\* the three bitmaps of the Disk
C32_Witness ==
    /\ alive /\ last.clean /\ last.op = "create_new_file"
    /\ data_bits(disk) # {}
    /\ disk.h.tag_map = BitMap_as_bytes(disk.tag_bitmap)
    /\ disk.h.inode_map = BitMap_as_bytes(disk.inode_bitmap)
    /\ disk.h.block_map = BitMap_as_bytes(disk.block_bitmap)

\* the data block indices of the indirect blocks that the store h links in
\* the chain of the tag stored in slot t
stored_chain_blocks(h, t) ==
    LET tag == TagBlock_from_bytes(h.tag_region[t])
        ch == IF tag.some THEN tag_chain(h, TagBlock_indirect_pointer(tag.v), Fuel)
              ELSE <<>>
    IN {AddressIndex(ch[k].address) : k \in 1..Len(ch)}

\* C33: when remove_tag_from_inode prunes an empty indirect block, the write
\* that unlinks it (the parent block, or the tag) is issued before the write
\* of the data bitmap that clears its bit: however the operation is cut off
\* between two backend writes, no block that the store still links in the
\* tag's chain has had its bit cleared in the stored data bitmap
C33_UnlinkBeforeBitmap ==
    [][(last'.op = "interrupted" /\ last'.tag \in 0..(TagCount - 1))
       => \A b \in stored_chain_blocks(disk'.h, last'.tag) :
             b \in BitMap_from_bytes(disk.h.block_map).bits
                => b \in BitMap_from_bytes(disk'.h.block_map).bits]_vars

\* remove_tag_from_inode was cut off after the data bitmap was rewritten
C33_Witness ==
    /\ last.op = "interrupted"
    /\ BitMap_from_bytes(disk.h.block_map).bits # disk.block_bitmap.bits

C37_LowestFreeSlot ==
    /\ [](alive =>
             /\ \A j, k \in 1..Len(disk.tags) :
                   disk.tags[j].index = disk.tags[k].index => j = k
             /\ \A j, k \in 1..Len(disk.inodes) :
                   disk.inodes[j].index = disk.inodes[k].index => j = k)
    /\ [][/\ (last'.op = "create_new_tag" /\ last'.err = "Ok")
               => /\ Len(disk'.tags) = Len(disk.tags) + 1
                  /\ LET i == disk'.tags[Len(disk'.tags)].index
                     IN /\ i \in 0..(TagCount - 1)
                        /\ i \notin disk.tag_bitmap.bits
                        /\ \A j \in 0..(i - 1) : j \in disk.tag_bitmap.bits
          /\ (last'.op = "create_new_file" /\ last'.err = "Ok")
               => /\ Len(disk'.inodes) = Len(disk.inodes) + 1
                  /\ LET i == disk'.inodes[Len(disk'.inodes)].index
                     IN /\ i = last'.inode
                        /\ i \in 0..(InodeCount - 1)
                        /\ i \notin disk.inode_bitmap.bits
                        /\ \A j \in 0..(i - 1) : j \in disk.inode_bitmap.bits]_vars

\* create_new_file reused a freed slot below a live inode
C37_Witness ==
    /\ last.op = "create_new_file" /\ last.err = "Ok" /\ alive
    /\ \E k \in 1..Len(disk.inodes) : disk.inodes[k].index > last.inode
    /\ Len(disk.inodes) >= 3

\* the indices of the live inodes
live_inodes(s) == {s.inodes[k].index : k \in 1..Len(s.inodes)}

\* the cached inode with this index
live_inode(s, j) == s.inodes[locate_inode(s, j).v]

\* C38: an operation that targets one file, or a tag, leaves read_file(j) and
\* the extents of j unchanged for every other live inode j, and frees no data
\* block that lies in an extent of j
C38_OtherFilesUntouched ==
    [][(alive /\ alive'
        /\ last'.op \in {"create_new_file", "append_file_bytes", "delete_file",
                         "create_new_tag", "apply_tag", "remove_tag_from_inode",
                         "delete_tag"})
       => \A j \in live_inodes(disk) \cap live_inodes(disk') :
             (last'.op \in {"create_new_file", "append_file_bytes", "delete_file"}
                 => j # last'.inode)
             => /\ read_file(disk', j) = read_file(disk, j)
                /\ inode_extents(disk', live_inode(disk', j))
                      = inode_extents(disk, live_inode(disk, j))
                /\ \A b \in Range(extent_blocks(inode_extents(disk, live_inode(disk, j)))) :
                      b \in data_bits(disk) => b \in data_bits(disk')]_vars

\* delete_file of one file returned Ok while another file with data blocks
\* was live and kept its contents
C38_Witness ==
    /\ last.op = "delete_file" /\ last.err = "Ok" /\ alive
    /\ \E j \in live_inodes(disk) :
          /\ j # last.inode
          /\ read_file(disk, j).err = "Ok"
          /\ Len(inode_extents(disk, live_inode(disk, j))) > 0

\* C39: every indirect chain of a live tag and of a live inode is a finite
\* singly linked list: following the next pointers from the head visits no
\* block address twice, and no walk of a chain runs without end
C39_ChainsAcyclic ==
    /\ last.err # "Hang"
    /\ alive =>
          /\ \A k \in 1..Len(disk.tags) :
                LET ch == tag_chain(disk.h, TagBlock_indirect_pointer(disk.tags[k]), Fuel)
                IN \A a, b \in 1..Len(ch) : ch[a].address = ch[b].address => a = b
          /\ \A k \in 1..Len(disk.inodes) :
                LET ch == inode_chain(disk.h, INode_indirect_pointer(disk.inodes[k]), Fuel)
                IN \A a, b \in 1..Len(ch) : ch[a].address = ch[b].address => a = b

\* apply_tag returned Ok on a tag whose chain ends at next = 0
C39_Witness ==
    /\ last.op = "apply_tag" /\ last.err = "Ok" /\ alive /\ left < MaxChainSteps
    /\ LET ch == tag_chain(disk.h, TagBlock_indirect_pointer(disk.tags[1]), Fuel)
       IN /\ Len(ch) = 1
          /\ ch[1].block.next = 0
          /\ ch[1].block.number_of_members = MaxTagMembers

====
